---- MODULE Spec2Model ----
(***************************************************************************)
(* Query manager of the Threads geo-tag extension: the task queue with its *)
(* concurrency limit, the region / profile caches kept in                  *)
(* chrome.storage.local, the resolver (executeQuery /                      *)
(* executeIntegratedQuery) and the facade queryUserRegion.                 *)
(*                                                                         *)
(* Strings are sequences of character codes, so that startsWith / slice    *)
(* are computed as the code computes them.  A nullable string is <<>> for  *)
(* null and <<s>> for the string s.  Time is counted in days.              *)
(***************************************************************************)
EXTENDS Integers, Sequences, FiniteSets, TLC

\* ---------------------------------------------------------------- bounds
NumUsers == 2
MaxJobs == 3
MaxCalls == 1
MaxTime == 31
CapUsers == 34
CacheJobs == 2
TabJobs == 2
LiveJobs == 2

MaxRequests == 3
StartTime == 1000
ClockStep == 100
MaxTicks == 12

\* ------------------------------------------------------ program constants
RATE_LIMIT_MS == 500
AT == 64
queryQueueMax == 30
CACHE_EXPIRY_DAYS == 30
DefaultJobMax == 3
MinJobMax == 1
MaxJobMax == 10

expiryTime == CACHE_EXPIRY_DAYS

\* ------------------------------------------------------------- JS values
NULL == <<>>
Str(s) == <<s>>
EmptyStr == <<>>
EmptyMap == [k \in {} |-> NULL]

Put(m, k, v) == [x \in (DOMAIN m) \cup {k} |-> IF x = k THEN v ELSE m[x]]
Delete(m, k) == [x \in (DOMAIN m) \ {k} |-> m[x]]

\* username.startsWith('@') ? username.slice(1) : username
CleanUsername(username) ==
  IF Len(username) > 0 /\ Head(username) = AT THEN Tail(username) ELSE username

\* ------------------------------------------------------------ input sets
Names == {<<96 + i>> : i \in 1..NumUsers}
RawNames == Names \cup {<<AT, 97>>}
CapNames == {<<96 + i>> : i \in 1..(CapUsers + 1)}
TW == <<84, 87>>
CN == <<67, 78>>
Regions == {TW, CN}
TimePoints == {0, CACHE_EXPIRY_DAYS - 1, CACHE_EXPIRY_DAYS, MaxTime}
LimitInputs == {-1, 0, 2, 11}

VARIABLES
  queueJobMax,        \* let queueJobMax
  queryQueue,         \* let queryQueue: the pending tasks
  activeQueryCount,   \* let activeQueryCount
  running,            \* dispatched, unsettled executions: job id -> frame
  storage,            \* chrome.storage.local
  tabs,               \* open automation tabs
  calls,              \* message handlers suspended at an await
  now,                \* Date.now(), in days
  nextJobId,          \* identity of the next promise created by enqueue
  nextTabId,          \* chrome's next tab id
  lastDispatched,     \* id of the task shifted most recently
  analysis,           \* processProfileAnalysis messages the side panel holds
  injected,           \* the page script: its clock, lastRequestTime, timers, lookups sent
  last                \* what the most recent handler or job returned

vars == <<queueJobMax, queryQueue, activeQueryCount, running, storage, tabs,
          calls, now, nextJobId, nextTabId, lastDispatched, analysis, injected,
          last>>

\* ------------------------------------------------------------ text helpers
Space == 32

RECURSIVE TrimStart(_)
TrimStart(s) == IF Len(s) > 0 /\ Head(s) = Space THEN TrimStart(Tail(s)) ELSE s

RECURSIVE TrimEnd(_)
TrimEnd(s) ==
  IF Len(s) > 0 /\ s[Len(s)] = Space THEN TrimEnd(SubSeq(s, 1, Len(s) - 1)) ELSE s

\* String.prototype.trim
Trim(s) == TrimEnd(TrimStart(s))

\* String.prototype.toLowerCase on ASCII letters
ToLowerCase(s) == [i \in 1..Len(s) |-> IF s[i] >= 65 /\ s[i] <= 90 THEN s[i] + 32 ELSE s[i]]

\* String.prototype.includes
Includes(s, sub) ==
  \E i \in 1..(Len(s) + 1) :
    i + Len(sub) - 1 <= Len(s) /\ SubSeq(s, i, i + Len(sub) - 1) = sub

\* ------------------------------------------------------------ results
NoResult == [success |-> FALSE, region |-> NULL, fromCache |-> "", source |-> "", error |-> ""]

\* { success: true, region: cachedRegion, fromCache: true }
CacheHitResult(region) ==
  [success |-> TRUE, region |-> region, fromCache |-> "true", source |-> "", error |-> ""]

\* { success: true, region, fromCache: false, source: 'api_intercept' }
ApiResult(region) ==
  [success |-> TRUE, region |-> region, fromCache |-> "false", source |-> "api_intercept", error |-> ""]

\* { success: true, region: region, fromCache: false }
SlowResult(region) ==
  [success |-> TRUE, region |-> region, fromCache |-> "false", source |-> "", error |-> ""]

\* { success: false, error }
FailResult(error) ==
  [success |-> FALSE, region |-> NULL, fromCache |-> "", source |-> "", error |-> error]

\* { success: false, region: null, fromCache: null }
QueueRejectedResult ==
  [success |-> FALSE, region |-> NULL, fromCache |-> "null", source |-> "", error |-> ""]

\* { success: false, error: '隊列已滿或該用戶已在查詢中' }
ManualRejectedResult == FailResult("QueueFullOrAlreadyQuerying")

\* ------------------------------------------------------------ cache store
\* mutant: an entry aged exactly expiryTime still counts as fresh
IsFreshInclusive(entry, t) == t - entry.timestamp <= expiryTime

\* now - cached.timestamp < expiryTime
IsFresh(entry, t) == t - entry.timestamp < expiryTime

\* getCachedRegion: the value returned, and whether the entry is purged
GetCachedRegion(cache, username, t) ==
  IF username \in DOMAIN cache
  THEN IF IsFresh(cache[username], t)
       THEN [ret |-> cache[username].region, purge |-> FALSE]
       ELSE [ret |-> NULL, purge |-> TRUE]
  ELSE [ret |-> NULL, purge |-> FALSE]

\* getCachedProfile: { profile } or null
GetCachedProfile(cache, username, t) ==
  IF username \in DOMAIN cache
  THEN IF IsFresh(cache[username], t)
       THEN [ret |-> Str(cache[username].profile), purge |-> FALSE]
       ELSE [ret |-> NULL, purge |-> TRUE]
  ELSE [ret |-> NULL, purge |-> FALSE]

\* cache[username] = { region, timestamp: Date.now() }
RegionEntry(region, t) == [region |-> region, timestamp |-> t]

\* cache[username] = { profile, timestamp: Date.now() }
ProfileEntry(profile, t) == [profile |-> profile, timestamp |-> t]

\* ------------------------------------------------------------ task queue
Task(id, username, isIntegrated, enableProfileAnalysis, shouldKeepTab, keepTabFilter) ==
  [id |-> id, username |-> username, isIntegrated |-> isIntegrated,
   enableProfileAnalysis |-> enableProfileAnalysis,
   shouldKeepTab |-> shouldKeepTab, keepTabFilter |-> keepTabFilter]

\* the frame of executeQuery / executeIntegratedQuery up to its first await
NewFrame(task) ==
  [task |-> task, pc |-> IF task.isIntegrated THEN "profile" ELSE "fast",
   tab |-> 0, res |-> NoResult, snap |-> EmptyMap, cb |-> 0, rateLimited |-> FALSE,
   userReplyContent |-> EmptyStr]

\* mutant: the limit test is off by one
QueueBlockedOffByOne(q, n, limit) == n > limit \/ Len(q) = 0

\* activeQueryCount >= queueJobMax || queryQueue.length === 0
QueueBlocked(q, n, limit) == n >= limit \/ Len(q) = 0

\* mutant: the task is popped from the end of the queue
ProcessQueryQueueLifo(q, n, run, disp, limit) ==
  IF n >= limit \/ Len(q) = 0
  THEN [q |-> q, n |-> n, run |-> run, disp |-> disp]
  ELSE [q |-> SubSeq(q, 1, Len(q) - 1), n |-> n + 1,
        run |-> (q[Len(q)].id :> [task |-> q[Len(q)],
                   pc |-> IF q[Len(q)].isIntegrated THEN "profile" ELSE "fast",
                   tab |-> 0, res |-> NoResult, snap |-> EmptyMap, cb |-> 0,
                   rateLimited |-> FALSE, userReplyContent |-> EmptyStr]) @@ run,
        disp |-> q[Len(q)].id]

\* processQueryQueue up to the await of the task it started
ProcessQueryQueue(q, n, run, disp, limit) ==
  IF QueueBlocked(q, n, limit)
  THEN [q |-> q, n |-> n, run |-> run, disp |-> disp]
  ELSE [q |-> Tail(q), n |-> n + 1,
        run |-> (Head(q).id :> NewFrame(Head(q))) @@ run,
        disp |-> Head(q).id]

\* mutant: the capacity test lets one more task in
QueueFullOffByOne(q) == Len(q) > queryQueueMax

\* queryQueue.length >= queryQueueMax
QueueFull(q) == Len(q) >= queryQueueMax

\* queryQueue.some(task => task.username === username)
IsAlreadyInQueue(q, username) == \E i \in 1..Len(q) : q[i].username = username

\* mutant: the dispatch at admission does not count the job
AddToQueueKeepsCount(task) ==
  IF QueueFull(queryQueue) \/ IsAlreadyInQueue(queryQueue, task.username)
  THEN [admitted |-> FALSE, q |-> queryQueue, n |-> activeQueryCount,
        run |-> running, disp |-> lastDispatched]
  ELSE LET p == ProcessQueryQueue(Append(queryQueue, task), activeQueryCount, running,
                                  lastDispatched, queueJobMax)
       IN [admitted |-> TRUE, q |-> p.q, n |-> activeQueryCount, run |-> p.run,
           disp |-> p.disp]

\* addToQueryQueue / addToIntegratedQueryQueue: null, or push and dispatch
AddToQueue(task) ==
  IF QueueFull(queryQueue) \/ IsAlreadyInQueue(queryQueue, task.username)
  THEN [admitted |-> FALSE, q |-> queryQueue, n |-> activeQueryCount,
        run |-> running, disp |-> lastDispatched]
  ELSE [admitted |-> TRUE] @@
       ProcessQueryQueue(Append(queryQueue, task), activeQueryCount, running,
                         lastDispatched, queueJobMax)

\* parseInt(value, 10) || 3, for a number or a non-numeric value
ParseLimit(value) == IF value.numeric /\ value.n # 0 THEN value.n ELSE DefaultJobMax

Max(a, b) == IF a >= b THEN a ELSE b

\* mutant: the smaller value is not taken
MinIgnoresBound(a, b) == b

Min(a, b) == IF a <= b THEN a ELSE b

\* mutant: the limit has no lower bound
ClampLimitNoFloor(value) == Min(MaxJobMax, ParseLimit(value))

\* Math.max(1, Math.min(10, parseInt(value, 10) || 3))
ClampLimit(value) == Max(MinJobMax, Min(MaxJobMax, ParseLimit(value)))

LimitValues == {[numeric |-> TRUE, n |-> v] : v \in LimitInputs}
                 \cup {[numeric |-> FALSE, n |-> 0]}

\* ------------------------------------------------------------ state
Idle == [pc |-> "idle"]

Settings ==
  { [keepTabAfterQuery |-> FALSE, keepTabFilter |-> EmptyStr],
    [keepTabAfterQuery |-> TRUE, keepTabFilter |-> EmptyStr],
    [keepTabAfterQuery |-> TRUE, keepTabFilter |-> <<Space>>],
    [keepTabAfterQuery |-> TRUE, keepTabFilter |-> <<Space, 116, 119>>] }

\* injected.js once loaded: let lastRequestTime = 0, no request in progress;
\* Date.now() is far beyond RATE_LIMIT_MS
PageLoaded ==
  [clock |-> StartTime, lastRequestTime |-> 0, timers |-> EmptyMap, sent |-> <<>>,
   nextRequestId |-> 1]

InitCommon ==
  /\ queueJobMax = DefaultJobMax
  /\ queryQueue = <<>>
  /\ activeQueryCount = 0
  /\ running = EmptyMap
  /\ tabs = {}
  /\ calls = [c \in 1..MaxCalls |-> Idle]
  /\ now = 0
  /\ nextJobId = 1
  /\ nextTabId = 1
  /\ lastDispatched = 0
  /\ analysis = EmptyMap
  /\ injected = PageLoaded
  /\ last = [op |-> "none", key |-> EmptyStr, id |-> 0, ret |-> NoResult]

Init ==
  /\ InitCommon
  /\ \E st \in Settings, llm \in BOOLEAN :
       storage = [regionCache |-> EmptyMap, profileCache |-> EmptyMap,
                  keepTabAfterQuery |-> st.keepTabAfterQuery,
                  keepTabFilter |-> st.keepTabFilter,
                  llmProfileAnalysis |-> llm]

Event(op, key, id, ret) == [op |-> op, key |-> key, id |-> id, ret |-> ret]

\* a step that returns nothing to a caller
NoEvent == Event("none", EmptyStr, 0, NoResult)

\* { success: true, region } of the getCachedRegion handler and
\* { success: true, profile } of the getCachedProfile handler
GetResponse(value) ==
  [success |-> TRUE, region |-> value, fromCache |-> "", source |-> "", error |-> ""]

FreeSlot(c) == calls[c] = Idle /\ \A d \in 1..(c - 1) : calls[d] # Idle

Call(pc, kind, username, shouldKeepTab, snap, purged) ==
  [pc |-> pc, kind |-> kind, username |-> username, shouldKeepTab |-> shouldKeepTab,
   snap |-> snap, purged |-> purged]

queueVars == <<queryQueue, activeQueryCount, running, lastDispatched, nextJobId>>

\* ------------------------------------------------------------ facade
\* queryUserRegion up to the end of getCachedRegion's read
QueryUserRegion(c, username, shouldKeepTab, forceRefresh) ==
  /\ FreeSlot(c)
  /\ LET cleanUsername == CleanUsername(username)
         g == GetCachedRegion(storage.regionCache, cleanUsername, now)
     IN IF ~forceRefresh /\ g.ret # NULL
        THEN /\ last' = Event("cacheHit", cleanUsername, 0, CacheHitResult(g.ret))
             /\ UNCHANGED calls
        ELSE /\ calls' = [calls EXCEPT ![c] =
                  IF ~forceRefresh /\ g.purge
                  THEN Call("purge", "query", cleanUsername, shouldKeepTab,
                            Delete(storage.regionCache, cleanUsername), FALSE)
                  ELSE Call("settings", "query", cleanUsername, shouldKeepTab,
                            EmptyMap, FALSE)]
             /\ last' = NoEvent
  /\ UNCHANGED <<injected, analysis, queueJobMax, queueVars, storage, tabs, now, nextTabId>>

\* the manualQueryRegion handler up to its read of the settings
ManualQueryRegion(c, account) ==
  /\ FreeSlot(c)
  /\ calls' = [calls EXCEPT ![c] = Call("settings", "manual", account, "null", EmptyMap, FALSE)]
  /\ UNCHANGED <<injected, analysis, queueJobMax, queueVars, storage, tabs, now, nextTabId>>
  /\ last' = NoEvent

\* the getCachedRegion handler up to the end of the read
GetCachedRegionCall(c, username) ==
  /\ FreeSlot(c)
  /\ LET g == GetCachedRegion(storage.regionCache, username, now)
     IN IF g.purge
        THEN /\ calls' = [calls EXCEPT ![c] =
                  Call("purge", "getRegion", username, "null",
                       Delete(storage.regionCache, username), FALSE)]
             /\ last' = NoEvent
        ELSE /\ last' = Event("getCachedRegion", username, 0, GetResponse(g.ret))
             /\ UNCHANGED calls
  /\ UNCHANGED <<injected, analysis, queueJobMax, queueVars, storage, tabs, now, nextTabId>>

\* the getCachedProfile handler up to the end of the read
GetCachedProfileCall(c, username) ==
  /\ FreeSlot(c)
  /\ LET g == GetCachedProfile(storage.profileCache, username, now)
     IN IF g.purge
        THEN /\ calls' = [calls EXCEPT ![c] =
                  Call("purge", "getProfile", username, "null",
                       Delete(storage.profileCache, username), FALSE)]
             /\ last' = NoEvent
        ELSE /\ last' = Event("getCachedProfile", username, 0, GetResponse(g.ret))
             /\ UNCHANGED calls
  /\ UNCHANGED <<injected, analysis, queueJobMax, queueVars, storage, tabs, now, nextTabId>>

\* delete cache[username]; await chrome.storage.local.set(...); return null
PurgeWrite(c) ==
  /\ calls[c].pc = "purge"
  /\ storage' = IF calls[c].kind = "getProfile"
                THEN [storage EXCEPT !.profileCache = calls[c].snap]
                ELSE [storage EXCEPT !.regionCache = calls[c].snap]
  /\ IF calls[c].kind = "query"
     THEN /\ calls' = [calls EXCEPT ![c].pc = "settings", ![c].snap = EmptyMap,
                                    ![c].purged = TRUE]
          /\ last' = NoEvent
     ELSE /\ calls' = [calls EXCEPT ![c] = Idle]
          /\ last' = Event(IF calls[c].kind = "getProfile" THEN "getCachedProfileExpired"
                           ELSE "getCachedRegionExpired",
                           calls[c].username, 0, GetResponse(NULL))
  /\ UNCHANGED <<injected, analysis, queueJobMax, queueVars, tabs, now, nextTabId>>

\* the saveCachedProfile handler up to the end of the read
SaveCachedProfileCall(c, username, profile) ==
  /\ FreeSlot(c)
  /\ calls' = [calls EXCEPT ![c] =
        Call("profileSet", "saveProfile", username, "null",
             Put(storage.profileCache, username, ProfileEntry(profile, now)), FALSE)]
  /\ UNCHANGED <<injected, analysis, queueJobMax, queueVars, storage, tabs, now, nextTabId>>
  /\ last' = NoEvent

\* saveCachedProfile: await chrome.storage.local.set({ profileCache: cache })
ProfileWrite(c) ==
  /\ calls[c].pc = "profileSet"
  /\ storage' = [storage EXCEPT !.profileCache = calls[c].snap]
  /\ calls' = [calls EXCEPT ![c] = Idle]
  /\ UNCHANGED <<injected, analysis, queueJobMax, queueVars, tabs, now, nextTabId>>
  /\ last' = NoEvent

\* the task built by queryUserRegion or by the manualQueryRegion handler
CallTask(call) ==
  IF call.kind = "manual"
  THEN Task(nextJobId, call.username, TRUE, storage.llmProfileAnalysis,
            storage.keepTabAfterQuery, storage.keepTabFilter)
  ELSE Task(nextJobId, call.username, FALSE, FALSE,
            IF call.shouldKeepTab = "null" THEN storage.keepTabAfterQuery
            ELSE call.shouldKeepTab = "true",
            storage.keepTabFilter)

\* the result returned when addToQueryQueue / addToIntegratedQueryQueue gave null
RejectedResult(call) ==
  IF call.kind = "manual" THEN ManualRejectedResult ELSE QueueRejectedResult

\* read the settings, then addToQueryQueue / addToIntegratedQueryQueue
Enqueue(c, maxJobs) ==
  /\ calls[c].pc = "settings"
  /\ LET task == CallTask(calls[c])
         r == AddToQueue(task)
     IN /\ r.admitted => nextJobId <= maxJobs
        /\ queryQueue' = r.q
        /\ activeQueryCount' = r.n
        /\ running' = r.run
        /\ lastDispatched' = r.disp
        /\ nextJobId' = IF r.admitted THEN nextJobId + 1 ELSE nextJobId
        /\ last' = IF r.admitted
                   THEN Event("admitted", task.username, task.id, NoResult)
                   ELSE Event("rejected", task.username, 0, RejectedResult(calls[c]))
  /\ calls' = [calls EXCEPT ![c] = Idle]
  /\ UNCHANGED <<injected, analysis, queueJobMax, storage, tabs, now, nextTabId>>

\* mutant: the tasks that wait are dropped when the limit changes
UpdateMaxConcurrentClearsQueue(value) ==
  /\ queueJobMax' = ClampLimit(value)
  /\ queryQueue' = <<>>
  /\ last' = NoEvent
  /\ UNCHANGED <<injected, analysis, activeQueryCount, running, lastDispatched, storage, tabs,
                 calls, now, nextJobId, nextTabId>>

\* updateMaxConcurrent(value)
UpdateMaxConcurrent(value) ==
  LET newValue == ClampLimit(value)
      p == IF Len(queryQueue) > 0 /\ activeQueryCount < newValue
           THEN ProcessQueryQueue(queryQueue, activeQueryCount, running,
                                  lastDispatched, newValue)
           ELSE [q |-> queryQueue, n |-> activeQueryCount, run |-> running,
                 disp |-> lastDispatched]
  IN /\ queueJobMax' = newValue
     /\ queryQueue' = p.q
     /\ activeQueryCount' = p.n
     /\ running' = p.run
     /\ lastDispatched' = p.disp
     /\ last' = NoEvent
     /\ UNCHANGED <<injected, analysis, storage, tabs, calls, now, nextJobId, nextTabId>>

\* Date.now() moves on
Tick(t) ==
  /\ t > now
  /\ now' = t
  /\ last' = NoEvent
  /\ UNCHANGED <<injected, analysis, queueJobMax, queueVars, storage, tabs, calls, nextTabId>>

\* ------------------------------------------------------------ resolver
JobKey(j) == CleanUsername(running[j].task.username)

\* shouldKeepTab && keepTabFilter && keepTabFilter.trim() !== ''
KeepFilterActive(task) ==
  task.shouldKeepTab /\ Len(task.keepTabFilter) > 0 /\ Trim(task.keepTabFilter) # EmptyStr

\* mutant: the tab is closed when the region does not contain the filter
SuccessClosesTabInverted(task, region) ==
  IF KeepFilterActive(task)
  THEN ~Includes(ToLowerCase(region[1]), ToLowerCase(Trim(task.keepTabFilter)))
  ELSE ~task.shouldKeepTab

\* shouldCloseTab of the success branch, for a region that is a string
SuccessClosesTab(task, region) ==
  IF KeepFilterActive(task)
  THEN Includes(ToLowerCase(region[1]), ToLowerCase(Trim(task.keepTabFilter)))
  ELSE ~task.shouldKeepTab

\* mutant: a failed job always closes its tab
FailureClosesTabAlways(task) == TRUE

\* shouldCloseTab of the failure branch and of the catch block
FailureClosesTab(task) == IF KeepFilterActive(task) THEN FALSE ELSE ~task.shouldKeepTab

\* mutant: the removal is never issued
RemoveTabKeeps(open, tab) == open

\* chrome.tabs.remove(tab.id) when the tab exists
RemoveTab(open, tab) == open \ {tab}

\* mutant: the finished job stays among the running ones
DropKeepsJob(run, j) == run

\* the execution of task j has returned: it is no longer in progress
Drop(run, j) == [k \in (DOMAIN run) \ {j} |-> run[k]]

\* mutant: the slot of the finished job is not released
SettleKeepsSlot(j, result) ==
  LET p == ProcessQueryQueue(queryQueue, activeQueryCount, Drop(running, j),
                             lastDispatched, queueJobMax)
  IN /\ queryQueue' = p.q
     /\ activeQueryCount' = p.n
     /\ running' = p.run
     /\ lastDispatched' = p.disp
     /\ last' = Event("settled", JobKey(j), j, result)
     /\ UNCHANGED <<injected, analysis, queueJobMax, nextJobId, calls, now>>

\* task.resolve(result); finally { activeQueryCount--; processQueryQueue() }
Settle(j, result) ==
  LET p == ProcessQueryQueue(queryQueue, activeQueryCount - 1, Drop(running, j),
                             lastDispatched, queueJobMax)
  IN /\ queryQueue' = p.q
     /\ activeQueryCount' = p.n
     /\ running' = p.run
     /\ lastDispatched' = p.disp
     /\ last' = Event("settled", JobKey(j), j, result)
     /\ UNCHANGED <<injected, analysis, queueJobMax, nextJobId, calls, now>>

\* mutant: the failure is returned without its message
FailWithoutMessage(j, error) ==
  /\ tabs' = IF FailureClosesTab(running[j].task) /\ running[j].tab # 0
             THEN RemoveTab(tabs, running[j].tab) ELSE tabs
  /\ Settle(j, NoResult)
  /\ UNCHANGED <<storage, nextTabId>>

\* the failure branch and the catch block: dispose of the tab, return the failure
Fail(j, error) ==
  /\ tabs' = IF FailureClosesTab(running[j].task) /\ running[j].tab # 0
             THEN RemoveTab(tabs, running[j].tab) ELSE tabs
  /\ Settle(j, FailResult(error))
  /\ UNCHANGED <<storage, nextTabId>>

Step(j, frame) ==
  /\ running' = [running EXCEPT ![j] = frame]
  /\ last' = NoEvent
  /\ UNCHANGED <<injected, analysis, queueJobMax, queryQueue, activeQueryCount, lastDispatched, nextJobId,
                 calls, now>>

\* profileData of a cached profile
CachedProfileData(profile) ==
  [fromCache |-> TRUE, needAnalysis |-> FALSE, profile |-> Str(profile),
   userPostContent |-> EmptyStr, userReplyContent |-> EmptyStr]

\* profileData of extracted text
ExtractedProfileData(userPostContent, userReplyContent) ==
  [fromCache |-> FALSE, needAnalysis |-> TRUE, profile |-> NULL,
   userPostContent |-> userPostContent, userReplyContent |-> userReplyContent]

\* mutant: the job awaits the analysis that the callback starts
StepCbAwaitsAnalysis(j, frame, profileData) ==
  /\ running' = [running EXCEPT ![j] = [frame EXCEPT !.cb = @ + 1, !.pc = "analysis"]]
  /\ analysis' = Put(analysis, j, [account |-> running[j].task.username,
                                   profileData |-> profileData])
  /\ last' = NoEvent
  /\ UNCHANGED <<injected, queueJobMax, queryQueue, activeQueryCount, lastDispatched, nextJobId,
                 calls, now>>

\* a step that calls onProfileContentReady(profileData): the handler's callback
\* sends processProfileAnalysis to the side panel and returns
StepCb(j, frame, profileData) ==
  /\ running' = [running EXCEPT ![j] = [frame EXCEPT !.cb = @ + 1]]
  /\ analysis' = Put(analysis, j, [account |-> running[j].task.username,
                                   profileData |-> profileData])
  /\ last' = NoEvent
  /\ UNCHANGED <<injected, queueJobMax, queryQueue, activeQueryCount, lastDispatched, nextJobId,
                 calls, now>>


ApiResponses ==
  { [present |-> FALSE, success |-> FALSE, region |-> NULL, fallbackNeeded |-> FALSE,
     rateLimited |-> FALSE],
    [present |-> TRUE, success |-> TRUE, region |-> NULL, fallbackNeeded |-> TRUE,
     rateLimited |-> FALSE],
    [present |-> TRUE, success |-> TRUE, region |-> NULL, fallbackNeeded |-> TRUE,
     rateLimited |-> TRUE],
    [present |-> TRUE, success |-> FALSE, region |-> NULL, fallbackNeeded |-> TRUE,
     rateLimited |-> FALSE] }
  \cup { [present |-> TRUE, success |-> TRUE, region |-> Str(r), fallbackNeeded |-> FALSE,
          rateLimited |-> FALSE] : r \in Regions }

\* apiResponse && apiResponse.success && apiResponse.region && !apiResponse.fallbackNeeded
ApiUsable(apiResponse) ==
  /\ apiResponse.present
  /\ apiResponse.success
  /\ apiResponse.region # NULL
  /\ Len(apiResponse.region[1]) > 0
  /\ ~apiResponse.fallbackNeeded

\* mutant: a rate-limited answer ends the job with an error
ApiAttemptSurfacesRateLimit(j, apiResponse) ==
  /\ running[j].pc = "fast"
  /\ IF apiResponse.rateLimited
     THEN Fail(j, "RateLimited")
     ELSE /\ IF ApiUsable(apiResponse)
             THEN Step(j, [running[j] EXCEPT !.pc = "saveGet",
                                             !.res = ApiResult(apiResponse.region)])
             ELSE Step(j, [running[j] EXCEPT !.pc = "slow"])
          /\ UNCHANGED <<storage, tabs, nextTabId>>

\* the queryViaApi attempt of executeQuery and executeIntegratedQuery
ApiAttempt(j, apiResponse) ==
  /\ running[j].pc = "fast"
  /\ IF ApiUsable(apiResponse)
     THEN Step(j, [running[j] EXCEPT !.pc = "saveGet", !.res = ApiResult(apiResponse.region)])
     ELSE Step(j, [running[j] EXCEPT !.pc = "slow",
                                     !.rateLimited = apiResponse.rateLimited])
  /\ UNCHANGED <<storage, tabs, nextTabId>>

\* mutant: the region view always gets a tab of its own
OpenTabAlwaysCreates(j, ok) ==
  /\ running[j].pc = "slow"
  /\ IF ~ok
     THEN Fail(j, "TabError")
     ELSE /\ Step(j, [running[j] EXCEPT !.pc = "ping", !.tab = nextTabId])
          /\ tabs' = tabs \cup {nextTabId}
          /\ nextTabId' = nextTabId + 1
          /\ UNCHANGED storage

\* chrome.tabs.update of the job's tab, or chrome.tabs.create when it has none
OpenTab(j, ok) ==
  /\ running[j].pc = "slow"
  /\ IF ~ok
     THEN Fail(j, "TabError")
     ELSE IF running[j].tab # 0
          THEN /\ Step(j, [running[j] EXCEPT !.pc = "ping"])
               /\ UNCHANGED <<storage, tabs, nextTabId>>
          ELSE /\ Step(j, [running[j] EXCEPT !.pc = "ping", !.tab = nextTabId])
               /\ tabs' = tabs \cup {nextTabId}
               /\ nextTabId' = nextTabId + 1
               /\ UNCHANGED storage

\* for (let i = 0; i < pingRetries; i++): the pings sent when the content
\* script first answers { success: true } to ping number firstSuccess
\* (counted from 0); a ping before it throws or answers without success
PingRetries == 10
MaxFirstSuccess == 12
PingInputs == {0, PingRetries - 1, PingRetries, MaxFirstSuccess}

RECURSIVE PingLoop(_, _)
PingLoop(firstSuccess, i) ==
  IF i >= PingRetries
  THEN [contentScriptReady |-> FALSE, pings |-> i]
  ELSE IF i = firstSuccess
       THEN [contentScriptReady |-> TRUE, pings |-> i + 1]
       ELSE PingLoop(firstSuccess, i + 1)

\* mutant: autoQueryRegion is sent whether or not a ping succeeded
PingReadyUnchecked(j, contentScriptReady) ==
  /\ running[j].pc = "ping"
  /\ Step(j, [running[j] EXCEPT !.pc = "query"])
  /\ UNCHANGED <<storage, tabs, nextTabId>>

\* the ping loop: contentScriptReady, or throw new Error('Content script 未能載入')
PingReady(j, contentScriptReady) ==
  /\ running[j].pc = "ping"
  /\ IF contentScriptReady
     THEN /\ Step(j, [running[j] EXCEPT !.pc = "query"])
          /\ UNCHANGED <<storage, tabs, nextTabId>>
     ELSE Fail(j, "ContentScriptNotLoaded")

AutoQueryResponses ==
  { [kind |-> "success", region |-> NULL],
    [kind |-> "failure", region |-> NULL],
    [kind |-> "throw", region |-> NULL] }
  \cup { [kind |-> "success", region |-> Str(r)] : r \in Regions }

\* the answer to autoQueryRegion and the disposition of the tab
AutoQueryResponse(j, response) ==
  /\ running[j].pc = "query"
  /\ LET task == running[j].task
     IN IF response.kind = "success"
        THEN IF KeepFilterActive(task) /\ response.region = NULL
             THEN Fail(j, "TypeError")
             ELSE /\ tabs' = IF SuccessClosesTab(task, response.region)
                             THEN RemoveTab(tabs, running[j].tab) ELSE tabs
                  /\ Step(j, [running[j] EXCEPT !.pc = "saveGet",
                                                !.res = SlowResult(response.region)])
                  /\ UNCHANGED <<storage, nextTabId>>
        ELSE IF response.kind = "failure"
             THEN Fail(j, "UnknownError")
             ELSE Fail(j, "MessageError")

\* saveCachedRegion: the read, and cache[username] = { region, timestamp }
SaveGet(j) ==
  /\ running[j].pc = "saveGet"
  /\ Step(j, [running[j] EXCEPT !.pc = "saveSet",
        !.snap = Put(storage.regionCache, JobKey(j),
                     RegionEntry(running[j].res.region, now))])
  /\ UNCHANGED <<storage, tabs, nextTabId>>

\* saveCachedRegion: chrome.storage.local.set({ regionCache: cache }) takes effect
SaveSet(j) ==
  /\ running[j].pc = "saveSet"
  /\ storage' = [storage EXCEPT !.regionCache = running[j].snap]
  /\ Step(j, [running[j] EXCEPT !.pc = "saveRet", !.snap = EmptyMap])
  /\ UNCHANGED <<tabs, nextTabId>>

\* mutant: the exception of chrome.storage.local ends the job
SaveThrowsEscapes(j) ==
  /\ running[j].pc \in {"saveGet", "saveSet"}
  /\ Fail(j, "StorageError")

\* saveCachedRegion: chrome.storage.local throws, the catch block logs it
SaveThrows(j) ==
  /\ running[j].pc \in {"saveGet", "saveSet"}
  /\ Step(j, [running[j] EXCEPT !.pc = "saveRet", !.snap = EmptyMap])
  /\ UNCHANGED <<storage, tabs, nextTabId>>

\* saveCachedRegion returns; the job returns its success result
SaveReturn(j) ==
  /\ running[j].pc = "saveRet"
  /\ tabs' = IF running[j].task.isIntegrated /\ running[j].res.source = "api_intercept"
                /\ running[j].tab # 0
             THEN RemoveTab(tabs, running[j].tab) ELSE tabs
  /\ Settle(j, running[j].res)
  /\ UNCHANGED <<storage, nextTabId>>

\* mutant: the cached profile is not used
ProfileLookupIgnoresCache(j) ==
  /\ running[j].pc = "profile"
  /\ IF ~running[j].task.enableProfileAnalysis
     THEN Step(j, [running[j] EXCEPT !.pc = "fast"])
     ELSE Step(j, [running[j] EXCEPT !.pc = "extract"])
  /\ UNCHANGED <<storage, tabs, nextTabId>>

\* executeIntegratedQuery: getCachedProfile when the analysis is enabled
ProfileLookup(j) ==
  /\ running[j].pc = "profile"
  /\ LET g == GetCachedProfile(storage.profileCache, JobKey(j), now)
     IN IF ~running[j].task.enableProfileAnalysis
        THEN Step(j, [running[j] EXCEPT !.pc = "fast"])
        ELSE IF g.ret # NULL
             THEN StepCb(j, [running[j] EXCEPT !.pc = "fast"],
                         CachedProfileData(g.ret[1]))
             ELSE IF g.purge
                  THEN Step(j, [running[j] EXCEPT !.pc = "profilePurge",
                                  !.snap = Delete(storage.profileCache, JobKey(j))])
                  ELSE Step(j, [running[j] EXCEPT !.pc = "extract"])
  /\ UNCHANGED <<storage, tabs, nextTabId>>

\* getCachedProfile: the write that drops the expired entry
ProfilePurgeWrite(j) ==
  /\ running[j].pc = "profilePurge"
  /\ storage' = [storage EXCEPT !.profileCache = running[j].snap]
  /\ Step(j, [running[j] EXCEPT !.pc = "extract", !.snap = EmptyMap])
  /\ UNCHANGED <<tabs, nextTabId>>

ReplyText == <<114>>
PostText == <<112>>

ReplyOutcomes == {"createFails", "sendFails", "text", "noText"}
PostOutcomes == {"updateFails", "text", "noText"}

\* the replies view: chrome.tabs.create, ping, scroll, extractPageText
ExtractReplies(j, outcome) ==
  /\ running[j].pc = "extract"
  /\ IF outcome = "createFails"
     THEN Fail(j, "TabError")
     ELSE /\ nextTabId' = nextTabId + 1
          /\ UNCHANGED storage
          /\ IF outcome = "sendFails"
             THEN /\ tabs' = IF FailureClosesTab(running[j].task)
                             THEN tabs ELSE tabs \cup {nextTabId}
                  /\ Settle(j, FailResult("MessageError"))
             ELSE /\ tabs' = tabs \cup {nextTabId}
                  /\ Step(j, [running[j] EXCEPT !.pc = "posts", !.tab = nextTabId,
                        !.userReplyContent = IF outcome = "text" THEN ReplyText
                                             ELSE EmptyStr])

\* mutant: the text of the replies view is not handed over
ExtractPostsDropsReplies(j, outcome) ==
  /\ running[j].pc = "posts"
  /\ IF outcome = "updateFails"
     THEN Fail(j, "TabError")
     ELSE LET userPostContent == IF outcome = "text" THEN PostText ELSE EmptyStr
              frame == [running[j] EXCEPT !.pc = "fast", !.userReplyContent = EmptyStr]
          IN /\ IF userPostContent # EmptyStr
                THEN StepCb(j, frame, ExtractedProfileData(userPostContent, EmptyStr))
                ELSE Step(j, frame)
             /\ UNCHANGED <<storage, tabs, nextTabId>>

\* the posts view in the same tab: chrome.tabs.update, ping, scroll,
\* extractPageText, then onProfileContentReady when some text was extracted
ExtractPosts(j, outcome) ==
  /\ running[j].pc = "posts"
  /\ IF outcome = "updateFails"
     THEN Fail(j, "TabError")
     ELSE LET userPostContent == IF outcome = "text" THEN PostText ELSE EmptyStr
              userReplyContent == running[j].userReplyContent
              frame == [running[j] EXCEPT !.pc = "fast", !.userReplyContent = EmptyStr]
          IN /\ IF userPostContent # EmptyStr \/ userReplyContent # EmptyStr
                THEN StepCb(j, frame,
                            ExtractedProfileData(userPostContent, userReplyContent))
                ELSE Step(j, frame)
             /\ UNCHANGED <<storage, tabs, nextTabId>>

JobStep(j) ==
  \/ \E apiResponse \in ApiResponses : ApiAttempt(j, apiResponse)
  \/ \E ok \in BOOLEAN : OpenTab(j, ok)
  \/ \E firstSuccess \in PingInputs :
       PingReady(j, PingLoop(firstSuccess, 0).contentScriptReady)
  \/ \E response \in AutoQueryResponses : AutoQueryResponse(j, response)
  \/ SaveGet(j)
  \/ SaveSet(j)
  \/ SaveReturn(j)
  \/ ProfileLookup(j)
  \/ ProfilePurgeWrite(j)
  \/ \E outcome \in ReplyOutcomes : ExtractReplies(j, outcome)
  \/ \E outcome \in PostOutcomes : ExtractPosts(j, outcome)

ShouldKeepTabArgs == {"null", "true", "false"}
Profiles == {<<80>>}

Next ==
  \/ \E c \in 1..MaxCalls, username \in RawNames, shouldKeepTab \in ShouldKeepTabArgs,
        forceRefresh \in BOOLEAN :
       QueryUserRegion(c, username, shouldKeepTab, forceRefresh)
  \/ \E c \in 1..MaxCalls, account \in RawNames : ManualQueryRegion(c, account)
  \/ \E c \in 1..MaxCalls, username \in Names : GetCachedRegionCall(c, username)
  \/ \E c \in 1..MaxCalls, username \in Names : GetCachedProfileCall(c, username)
  \/ \E c \in 1..MaxCalls, username \in Names, profile \in Profiles :
       SaveCachedProfileCall(c, username, profile)
  \/ \E c \in 1..MaxCalls : PurgeWrite(c)
  \/ \E c \in 1..MaxCalls : ProfileWrite(c)
  \/ \E c \in 1..MaxCalls : Enqueue(c, MaxJobs)
  \/ \E value \in LimitValues : UpdateMaxConcurrent(value)
  \/ \E t \in TimePoints : Tick(t)
  \/ \E j \in DOMAIN running : JobStep(j)

Spec == Init /\ [][Next]_vars

\* ------------------------------------------------ the queue on its own
\* The queue with both kinds of enqueue, limit changes and jobs whose API
\* attempt gets no answer and whose tab cannot be opened: every job ends
\* in the catch block, so the caches stay as they are.
NoApiResponse ==
  [present |-> FALSE, success |-> FALSE, region |-> NULL, fallbackNeeded |-> FALSE,
   rateLimited |-> FALSE]

InitQueue ==
  /\ InitCommon
  /\ storage = [regionCache |-> EmptyMap, profileCache |-> EmptyMap,
                keepTabAfterQuery |-> FALSE, keepTabFilter |-> EmptyStr,
                llmProfileAnalysis |-> FALSE]

NextQueue ==
  \/ \E c \in 1..MaxCalls, username \in RawNames : QueryUserRegion(c, username, "null", FALSE)
  \/ \E c \in 1..MaxCalls, account \in RawNames : ManualQueryRegion(c, account)
  \/ \E c \in 1..MaxCalls : Enqueue(c, MaxJobs)
  \/ \E value \in LimitValues : UpdateMaxConcurrent(value)
  \/ \E j \in DOMAIN running : ApiAttempt(j, NoApiResponse)
  \/ \E j \in DOMAIN running : OpenTab(j, FALSE)
  \/ \E j \in DOMAIN running : ProfileLookup(j)

SpecQueue == InitQueue /\ [][NextQueue]_vars

\* ------------------------------------------------ the queue at capacity
\* Enough usernames to fill the queue: the callers ask for a username never
\* asked before, taken in a fixed order, or for the one queued last;
\* odd usernames go through queryUserRegion, even ones through the
\* manualQueryRegion handler.  Jobs end as in SpecQueue, the oldest first.
Oldest(j) == \A k \in DOMAIN running : j <= k

CapFresh(username) == username = <<96 + nextJobId>>

CapWaiting(username) ==
  Len(queryQueue) > 1 /\ username = queryQueue[Len(queryQueue)].username

NextCap ==
  \/ \E c \in 1..MaxCalls, username \in CapNames :
       /\ username[1] % 2 = 1
       /\ CapFresh(username) \/ CapWaiting(username)
       /\ QueryUserRegion(c, username, "null", FALSE)
  \/ \E c \in 1..MaxCalls, account \in CapNames :
       /\ account[1] % 2 = 0
       /\ CapFresh(account) \/ CapWaiting(account)
       /\ ManualQueryRegion(c, account)
  \/ \E c \in 1..MaxCalls : Enqueue(c, CapUsers)
  \/ \E j \in DOMAIN running : ApiAttempt(j, NoApiResponse)
  \/ \E j \in DOMAIN running : Oldest(j) /\ OpenTab(j, FALSE)
  \/ \E j \in DOMAIN running : ProfileLookup(j)

SpecCap == InitQueue /\ [][NextCap]_vars

\* ------------------------------------------------ the caches and the resolver
\* queryUserRegion calls, cache reads and profile writes from the panel, the
\* clock, and plain jobs that take every path of executeQuery.  The settings
\* keep their defaults and the limit its initial value; a job lasts seconds
\* and the clock counts days, so the clock moves between jobs.
CacheApiResponses == {NoApiResponse} \cup {r \in ApiResponses : ApiUsable(r) /\ r.region = Str(TW)}

CacheAutoQueryResponses == {r \in AutoQueryResponses : r.region # Str(TW)}

ProfileNames == {<<97>>}

NextCache ==
  \/ \E c \in 1..MaxCalls, username \in RawNames, forceRefresh \in BOOLEAN :
       QueryUserRegion(c, username, "null", forceRefresh)
  \/ \E c \in 1..MaxCalls, username \in Names : GetCachedRegionCall(c, username)
  \/ \E c \in 1..MaxCalls, username \in ProfileNames : GetCachedProfileCall(c, username)
  \/ \E c \in 1..MaxCalls, username \in ProfileNames, profile \in Profiles :
       SaveCachedProfileCall(c, username, profile)
  \/ \E c \in 1..MaxCalls : PurgeWrite(c)
  \/ \E c \in 1..MaxCalls : ProfileWrite(c)
  \/ \E c \in 1..MaxCalls : Enqueue(c, CacheJobs)
  \/ \E t \in TimePoints : running = EmptyMap /\ Tick(t)
  \/ \E j \in DOMAIN running, apiResponse \in CacheApiResponses : ApiAttempt(j, apiResponse)
  \/ \E j \in DOMAIN running, ok \in BOOLEAN : OpenTab(j, ok)
  \/ \E j \in DOMAIN running, firstSuccess \in PingInputs :
       PingReady(j, PingLoop(firstSuccess, 0).contentScriptReady)
  \/ \E j \in DOMAIN running, response \in CacheAutoQueryResponses :
       AutoQueryResponse(j, response)
  \/ \E j \in DOMAIN running : SaveGet(j)
  \/ \E j \in DOMAIN running : SaveSet(j)
  \/ \E j \in DOMAIN running : SaveReturn(j)

SpecCache == InitQueue /\ [][NextCache]_vars

\* ------------------------------------------------ the keep-tab policies
\* Every stored keep-tab setting, plain calls with and without an explicit
\* shouldKeepTab, integrated calls with and without the profile analysis,
\* and jobs that take every path of executeQuery / executeIntegratedQuery.
\* The calls force a refresh, so the region cache never short-circuits them.
TabApiResponses ==
  {r \in ApiResponses : ~r.present \/ r.rateLimited \/ r.region \in {Str(TW), Str(CN)}}

TabNames == {<<97>>}

\* every way the replies view ends, the extracted text left out
TabReplyOutcomes == ReplyOutcomes \ {"text"}

\* every way the posts view ends, the extracted text left out
TabPostOutcomes == PostOutcomes \ {"text"}

InitTabs ==
  /\ InitCommon
  /\ \E st \in Settings, llm \in BOOLEAN :
       storage = [regionCache |-> EmptyMap, profileCache |-> EmptyMap,
                  keepTabAfterQuery |-> st.keepTabAfterQuery,
                  keepTabFilter |-> st.keepTabFilter,
                  llmProfileAnalysis |-> llm]

NextTabs ==
  \/ \E c \in 1..MaxCalls, username \in TabNames, shouldKeepTab \in ShouldKeepTabArgs :
       QueryUserRegion(c, username, shouldKeepTab, TRUE)
  \/ \E c \in 1..MaxCalls, account \in TabNames : ManualQueryRegion(c, account)
  \/ \E c \in 1..MaxCalls : Enqueue(c, TabJobs)
  \/ \E j \in DOMAIN running, apiResponse \in TabApiResponses : ApiAttempt(j, apiResponse)
  \/ \E j \in DOMAIN running, ok \in BOOLEAN : OpenTab(j, ok)
  \/ \E j \in DOMAIN running, firstSuccess \in PingInputs :
       PingReady(j, PingLoop(firstSuccess, 0).contentScriptReady)
  \/ \E j \in DOMAIN running, response \in AutoQueryResponses : AutoQueryResponse(j, response)
  \/ \E j \in DOMAIN running : SaveGet(j)
  \/ \E j \in DOMAIN running : SaveSet(j)
  \/ \E j \in DOMAIN running : SaveThrows(j)
  \/ \E j \in DOMAIN running : SaveReturn(j)
  \/ \E j \in DOMAIN running : ProfileLookup(j)
  \/ \E j \in DOMAIN running, outcome \in TabReplyOutcomes : ExtractReplies(j, outcome)
  \/ \E j \in DOMAIN running, outcome \in TabPostOutcomes : ExtractPosts(j, outcome)

SpecTabs == InitTabs /\ [][NextTabs]_vars

\* ------------------------------------------------ jobs that run to their end
\* The queue with both kinds of enqueue and limit changes; a job succeeds on
\* the fast path or fails when its tab cannot be opened.  Every await of a
\* running job ends (each wait of the code is bounded), so a running job
\* that can take a step eventually takes one.
LiveStep(j) ==
  /\ j \in DOMAIN running
  /\ \/ \E apiResponse \in CacheApiResponses : ApiAttempt(j, apiResponse)
     \/ OpenTab(j, FALSE)
     \/ ProfileLookup(j)
     \/ SaveGet(j)
     \/ SaveSet(j)
     \/ SaveReturn(j)

\* the limit is set to 1 or to 2
LiveLimitValues == {v \in LimitValues : v.numeric /\ v.n \in {-1, 2}}

NextLive ==
  \/ \E c \in 1..MaxCalls, username \in Names : QueryUserRegion(c, username, "null", TRUE)
  \/ \E c \in 1..MaxCalls, account \in Names : ManualQueryRegion(c, account)
  \/ \E c \in 1..MaxCalls : Enqueue(c, LiveJobs)
  \/ \E value \in LiveLimitValues : UpdateMaxConcurrent(value)
  \/ \E j \in DOMAIN running, apiResponse \in CacheApiResponses : ApiAttempt(j, apiResponse)
  \/ \E j \in DOMAIN running : OpenTab(j, FALSE)
  \/ \E j \in DOMAIN running : ProfileLookup(j)
  \/ \E j \in DOMAIN running : SaveGet(j)
  \/ \E j \in DOMAIN running : SaveSet(j)
  \/ \E j \in DOMAIN running : SaveReturn(j)

SpecLive ==
  /\ InitQueue
  /\ [][NextLive]_vars
  /\ \A j \in 1..LiveJobs : WF_vars(LiveStep(j))

\* ------------------------------------------------ every value of the limit
\* updateMaxConcurrent with every integer around the range 1..10 and with a
\* value that parseInt does not read (undefined, text), while plain queries
\* are queued and fail without a tab.
LimitJobs == 2
LimitMargin == 2

RangeLimitValues ==
  {[numeric |-> TRUE, n |-> v] : v \in (0 - LimitMargin)..(MaxJobMax + LimitMargin)}
                      \cup {[numeric |-> FALSE, n |-> 0]}

NextLimit ==
  \/ \E c \in 1..MaxCalls, username \in Names : QueryUserRegion(c, username, "null", TRUE)
  \/ \E c \in 1..MaxCalls : Enqueue(c, LimitJobs)
  \/ \E value \in RangeLimitValues : UpdateMaxConcurrent(value)
  \/ \E j \in DOMAIN running : ApiAttempt(j, NoApiResponse)
  \/ \E j \in DOMAIN running : OpenTab(j, FALSE)

SpecLimit == InitQueue /\ [][NextLimit]_vars

\* ------------------------------------------------ storage that throws
\* chrome.storage.local may throw on any get or set.
\* queryUserRegion: the read of getCachedRegion throws, the catch block
\* returns null
QueryUserRegionReadThrows(c, username, shouldKeepTab) ==
  /\ FreeSlot(c)
  /\ calls' = [calls EXCEPT ![c] =
        Call("settings", "query", CleanUsername(username), shouldKeepTab, EmptyMap, FALSE)]
  /\ last' = NoEvent
  /\ UNCHANGED <<injected, analysis, queueJobMax, queueVars, storage, tabs, now, nextTabId>>

\* getCachedRegion: the set that drops the expired entry throws, the catch
\* block returns null
PurgeThrows(c) ==
  /\ calls[c].pc = "purge"
  /\ calls[c].kind \in {"query", "getRegion"}
  /\ IF calls[c].kind = "query"
     THEN /\ calls' = [calls EXCEPT ![c].pc = "settings", ![c].snap = EmptyMap]
          /\ last' = NoEvent
     ELSE /\ calls' = [calls EXCEPT ![c] = Idle]
          /\ last' = Event("getCachedRegion", calls[c].username, 0, GetResponse(NULL))
  /\ UNCHANGED <<injected, analysis, queueJobMax, queueVars, storage, tabs, now, nextTabId>>

\* the getCachedRegion handler when the read throws
GetCachedRegionCallThrows(c, username) ==
  /\ FreeSlot(c)
  /\ last' = Event("getCachedRegion", username, 0, GetResponse(NULL))
  /\ UNCHANGED <<injected, analysis, queueJobMax, queueVars, storage, tabs, calls, now, nextTabId>>

\* queryUserRegion: the read of the settings throws; shouldKeepTab = false when
\* it was not given, keepTabFilter = ''
DefaultsTask(call) ==
  Task(nextJobId, call.username, FALSE, FALSE,
       IF call.shouldKeepTab = "null" THEN FALSE ELSE call.shouldKeepTab = "true",
       EmptyStr)

EnqueueDefaults(c, maxJobs) ==
  /\ calls[c].pc = "settings"
  /\ calls[c].kind = "query"
  /\ LET task == DefaultsTask(calls[c])
         r == AddToQueue(task)
     IN /\ r.admitted => nextJobId <= maxJobs
        /\ queryQueue' = r.q
        /\ activeQueryCount' = r.n
        /\ running' = r.run
        /\ lastDispatched' = r.disp
        /\ nextJobId' = IF r.admitted THEN nextJobId + 1 ELSE nextJobId
        /\ last' = IF r.admitted
                   THEN Event("admitted", task.username, task.id, NoResult)
                   ELSE Event("rejected", task.username, 0, RejectedResult(calls[c]))
  /\ calls' = [calls EXCEPT ![c] = Idle]
  /\ UNCHANGED <<injected, analysis, queueJobMax, storage, tabs, now, nextTabId>>

\* getCacheStats: { totalCount, validCount, expiredCount, expiryDays }
CacheStats(cache, t) ==
  [totalCount |-> Cardinality(DOMAIN cache),
   validCount |-> Cardinality({k \in DOMAIN cache : IsFresh(cache[k], t)}),
   expiredCount |-> Cardinality({k \in DOMAIN cache : ~IsFresh(cache[k], t)}),
   expiryDays |-> CACHE_EXPIRY_DAYS]

\* the value of getCacheStats' catch block
ZeroStats ==
  [totalCount |-> 0, validCount |-> 0, expiredCount |-> 0, expiryDays |-> CACHE_EXPIRY_DAYS]

\* getCacheStats, with a read that succeeds or throws
GetCacheStatsCall(ok) ==
  /\ last' = Event("getCacheStats", EmptyStr, 0,
                   IF ok THEN CacheStats(storage.regionCache, now) ELSE ZeroStats)
  /\ UNCHANGED <<injected, analysis, queueJobMax, queueVars, storage, tabs, calls, now, nextTabId>>

\* the map that getAllCachedRegions returns
Listing(cache) == [cache |-> cache]

\* getAllCachedRegions, with a read that succeeds or throws
GetAllCachedRegionsCall(ok) ==
  /\ last' = Event("getAllCachedRegions", EmptyStr, 0,
                   Listing(IF ok THEN storage.regionCache ELSE EmptyMap))
  /\ UNCHANGED <<injected, analysis, queueJobMax, queueVars, storage, tabs, calls, now, nextTabId>>

\* Plain queries under every stored keep-tab setting, cache reads, statistics
\* and listings from the panel, jobs on the fast path or without a tab, and a
\* clock that moves while nothing is in progress; every storage access may
\* throw.
FaultJobs == 2

FaultNames == {<<97>>, <<AT, 97>>}

\* every stored setting but the blank filter
FaultSettings == {st \in Settings : Len(st.keepTabFilter) # 1}

InitFaults ==
  /\ InitCommon
  /\ \E st \in FaultSettings :
       storage = [regionCache |-> EmptyMap, profileCache |-> EmptyMap,
                  keepTabAfterQuery |-> st.keepTabAfterQuery,
                  keepTabFilter |-> st.keepTabFilter,
                  llmProfileAnalysis |-> FALSE]

NextFaults ==
  \/ \E c \in 1..MaxCalls, username \in FaultNames, shouldKeepTab \in ShouldKeepTabArgs :
       QueryUserRegion(c, username, shouldKeepTab, FALSE)
  \/ \E c \in 1..MaxCalls, username \in FaultNames, shouldKeepTab \in ShouldKeepTabArgs :
       QueryUserRegionReadThrows(c, username, shouldKeepTab)
  \/ \E c \in 1..MaxCalls, username \in ProfileNames : GetCachedRegionCall(c, username)
  \/ \E c \in 1..MaxCalls, username \in ProfileNames : GetCachedRegionCallThrows(c, username)
  \/ \E c \in 1..MaxCalls : PurgeWrite(c)
  \/ \E c \in 1..MaxCalls : PurgeThrows(c)
  \/ \E c \in 1..MaxCalls : Enqueue(c, FaultJobs)
  \/ \E c \in 1..MaxCalls : EnqueueDefaults(c, FaultJobs)
  \/ \E ok \in BOOLEAN : GetCacheStatsCall(ok)
  \/ \E ok \in BOOLEAN : GetAllCachedRegionsCall(ok)
  \/ \E t \in TimePoints :
       /\ running = EmptyMap
       /\ \A c \in 1..MaxCalls : calls[c] = Idle
       /\ Tick(t)
  \/ \E j \in DOMAIN running, apiResponse \in CacheApiResponses : ApiAttempt(j, apiResponse)
  \/ \E j \in DOMAIN running : OpenTab(j, FALSE)
  \/ \E j \in DOMAIN running : SaveGet(j)
  \/ \E j \in DOMAIN running : SaveSet(j)
  \/ \E j \in DOMAIN running : SaveThrows(j)
  \/ \E j \in DOMAIN running : SaveReturn(j)

SpecFaults == InitFaults /\ [][NextFaults]_vars

\* ------------------------------------------------ the profile analysis
\* The side panel's processProfileAnalysis handler.  A cached profile is
\* displayed; extracted text goes to analyzeUserProfile, whose tags are sent
\* to the saveCachedProfile handler; a failed analysis is reported in the
\* status bar.  An analysis that never completes takes no step.
AnalysisOutcomes == {"tags", "failure", "throw"}

\* the handler ends without writing anything
AnalysisEnds(a, outcome) ==
  /\ a \in DOMAIN analysis
  /\ LET profileData == analysis[a].profileData
     IN \/ profileData.fromCache /\ profileData.profile # NULL
              /\ Len(profileData.profile[1]) > 0
        \/ ~profileData.needAnalysis
        \/ outcome # "tags"
  /\ analysis' = Delete(analysis, a)
  /\ last' = NoEvent
  /\ UNCHANGED <<injected, queueJobMax, queueVars, storage, tabs, calls, now, nextTabId>>

\* analysisResult.success: the tags go to the saveCachedProfile handler, which
\* runs saveCachedProfile up to the end of its read
AnalysisSaves(a, c, profile) ==
  /\ a \in DOMAIN analysis
  /\ LET profileData == analysis[a].profileData
     IN /\ ~(profileData.fromCache /\ profileData.profile # NULL
               /\ Len(profileData.profile[1]) > 0)
        /\ profileData.needAnalysis
  /\ FreeSlot(c)
  /\ LET cleanUsername == CleanUsername(analysis[a].account)
     IN calls' = [calls EXCEPT ![c] =
          Call("profileSet", "saveProfile", cleanUsername, "null",
               Put(storage.profileCache, cleanUsername, ProfileEntry(profile, now)),
               FALSE)]
  /\ analysis' = Delete(analysis, a)
  /\ last' = NoEvent
  /\ UNCHANGED <<injected, queueJobMax, queueVars, storage, tabs, now, nextTabId>>

\* Integrated queries for one account with the profile analysis switched on
\* or off, every outcome of the two extractions, the fast path and the tab
\* path, the side panel's analysis, and the clock between jobs.
ProfileJobs == 2

ProfileAutoQueryResponses == {r \in AutoQueryResponses : r.region # Str(CN)}

InitProfile ==
  /\ InitCommon
  /\ \E llm \in BOOLEAN :
       storage = [regionCache |-> EmptyMap, profileCache |-> EmptyMap,
                  keepTabAfterQuery |-> FALSE, keepTabFilter |-> EmptyStr,
                  llmProfileAnalysis |-> llm]

NextProfile ==
  \/ \E c \in 1..MaxCalls, account \in ProfileNames : ManualQueryRegion(c, account)
  \/ \E c \in 1..MaxCalls : Enqueue(c, ProfileJobs)
  \/ \E t \in TimePoints : running = EmptyMap /\ analysis = EmptyMap /\ Tick(t)
  \/ \E j \in DOMAIN running : ProfileLookup(j)
  \/ \E j \in DOMAIN running : ProfilePurgeWrite(j)
  \/ \E j \in DOMAIN running, outcome \in ReplyOutcomes : ExtractReplies(j, outcome)
  \/ \E j \in DOMAIN running, outcome \in PostOutcomes : ExtractPosts(j, outcome)
  \/ \E j \in DOMAIN running, apiResponse \in CacheApiResponses : ApiAttempt(j, apiResponse)
  \/ \E j \in DOMAIN running, ok \in BOOLEAN : OpenTab(j, ok)
  \/ \E j \in DOMAIN running, firstSuccess \in PingInputs :
       PingReady(j, PingLoop(firstSuccess, 0).contentScriptReady)
  \/ \E j \in DOMAIN running, response \in ProfileAutoQueryResponses :
       AutoQueryResponse(j, response)
  \/ \E j \in DOMAIN running : SaveGet(j)
  \/ \E j \in DOMAIN running : SaveSet(j)
  \/ \E j \in DOMAIN running : SaveReturn(j)
  \/ \E a \in DOMAIN analysis, outcome \in AnalysisOutcomes : AnalysisEnds(a, outcome)
  \/ \E a \in DOMAIN analysis, c \in 1..MaxCalls, profile \in Profiles :
       AnalysisSaves(a, c, profile)
  \/ \E c \in 1..MaxCalls : ProfileWrite(c)

SpecProfile == InitProfile /\ [][NextProfile]_vars

\* ------------------------------------------------ the tags of the analysis
Comma == 44
Colon == 58
WideColon == 65306
MAX_TAGS == 5
MAX_TAG_LENGTH == 6

\* String.prototype.indexOf for one character: its 0-based index, or -1
RECURSIVE IndexFrom(_, _, _)
IndexFrom(s, ch, i) ==
  IF i > Len(s) THEN -1 ELSE IF s[i] = ch THEN i - 1 ELSE IndexFrom(s, ch, i + 1)

IndexOf(s, ch) == IndexFrom(s, ch, 1)

\* String.prototype.substring(from, to)
Substring(s, from, to) == SubSeq(s, from + 1, to)

\* String.prototype.split on the comma
RECURSIVE Split(_)
Split(s) ==
  LET i == IndexOf(s, Comma)
  IN IF i = -1 THEN <<s>>
     ELSE <<Substring(s, 0, i)>> \o Split(Substring(s, i + 1, Len(s)))

\* Array.prototype.join(',')
RECURSIVE Join(_)
Join(parts) ==
  IF Len(parts) = 0 THEN EmptyStr
  ELSE IF Len(parts) = 1 THEN parts[1]
  ELSE parts[1] \o <<Comma>> \o Join(Tail(parts))

\* Array.prototype.slice(0, n)
Slice(entries, n) == SubSeq(entries, 1, IF Len(entries) < n THEN Len(entries) ELSE n)

TagEntry(tag, reason) == [tag |-> tag, reason |-> reason]

\* the map callback of analyzeUserProfile: the tag before the first colon,
\* the reason after it; an entry without a colon, or with one in front, is a tag
ParseEntry(entry) ==
  LET trimmed == Trim(entry)
      colonIndex == IF IndexOf(trimmed, Colon) # -1
                    THEN IndexOf(trimmed, Colon) ELSE IndexOf(trimmed, WideColon)
  IN IF colonIndex > 0
     THEN TagEntry(Trim(Substring(trimmed, 0, colonIndex)),
                   Trim(Substring(trimmed, colonIndex + 1, Len(trimmed))))
     ELSE TagEntry(trimmed, EmptyStr)

\* entry.tag.length > 0 && entry.tag.length < MAX_TAG_LENGTH
TagAccepted(entry) == Len(entry.tag) > 0 /\ Len(entry.tag) < MAX_TAG_LENGTH

\* entry.reason ? tag + ':' + reason : tag
FormatEntry(entry) ==
  IF Len(entry.reason) > 0 THEN entry.tag \o <<Colon>> \o entry.reason ELSE entry.tag

\* filter, slice(0, MAX_TAGS), map, join(',')
JoinTags(entries) ==
  LET kept == Slice(SelectSeq(entries, TagAccepted), MAX_TAGS)
  IN Join([i \in 1..Len(kept) |-> FormatEntry(kept[i])])

\* analyzeUserProfile: processedTags of the model's fullResponse
ProcessedTags(fullResponse) ==
  LET parts == Split(Trim(fullResponse))
  IN JoinTags([i \in 1..Len(parts) |-> ParseEntry(parts[i])])

\* callOpenAIForAnalysis, a content that JSON.parse reads: parsed.tags
JsonTags(items) ==
  JoinTags([i \in 1..Len(items) |-> TagEntry(Trim(items[i].tag), Trim(items[i].reason))])

\* callOpenAIForAnalysis, the catch of JSON.parse: the comma-separated format
OldFormatTags(content) ==
  LET parts == Split(Trim(content))
  IN JoinTags([i \in 1..Len(parts) |-> TagEntry(Trim(parts[i]), EmptyStr)])

\* callOpenAIForAnalysis: processedTags of the reply
CallOpenAIForAnalysis(reply) ==
  IF reply.json THEN JsonTags(reply.tags) ELSE OldFormatTags(reply.content)

\* the side panel: analyzeUserProfile succeeds, saveCachedProfile is sent
AnalyzeUserProfile(a, c, fullResponse) == AnalysisSaves(a, c, ProcessedTags(fullResponse))

\* the popup: processLLMAnalysis succeeds, saveCachedProfile is sent
ProcessLLMAnalysis(a, c, reply) == AnalysisSaves(a, c, CallOpenAIForAnalysis(reply))

\* One integrated query with the profile analysis switched on, and every
\* model response made of up to six entries: labels of 1, 2 and 6 characters,
\* with and without a reason; with up to two entries also empty entries,
\* padded entries, a leading colon and a full-width colon.
AnalyzerJobs == 1
MaxEntries == 6
MaxEdgeEntries == 2

SeqsUpTo(S, n) == UNION {[1..k -> S] : k \in 0..n}

ResponseEntries == {<<97>>, <<97, 98>>, <<97, 98, 99, 100, 101, 102>>, <<97, 98, Colon, 114>>}

EdgeEntries ==
  ResponseEntries \cup {EmptyStr, <<Colon, 114>>, <<Space, 97, 98, Space>>,
                        <<97, 98, WideColon, 114>>}

ModelResponses ==
  {Join(parts) : parts \in SeqsUpTo(ResponseEntries, MaxEntries)
                            \cup SeqsUpTo(EdgeEntries, MaxEdgeEntries)}

JsonItems ==
  {TagEntry(<<97>>, EmptyStr), TagEntry(<<97, 98>>, <<114>>),
   TagEntry(<<97, 98, 99, 100, 101, 102>>, EmptyStr)}

PopupReplies ==
  {[json |-> TRUE, tags |-> items, content |-> EmptyStr] :
     items \in SeqsUpTo(JsonItems, MaxEntries)}
  \cup {[json |-> FALSE, tags |-> <<>>, content |-> Join(parts)] :
          parts \in SeqsUpTo({<<97>>, <<97, 98>>}, MaxEntries)}

AnalyzerOutcomes == {"text", "noText"}

InitAnalyzer ==
  /\ InitCommon
  /\ storage = [regionCache |-> EmptyMap, profileCache |-> EmptyMap,
                keepTabAfterQuery |-> FALSE, keepTabFilter |-> EmptyStr,
                llmProfileAnalysis |-> TRUE]

NextAnalyzer ==
  \/ \E c \in 1..MaxCalls, account \in ProfileNames : ManualQueryRegion(c, account)
  \/ \E c \in 1..MaxCalls : Enqueue(c, AnalyzerJobs)
  \/ \E j \in DOMAIN running : ProfileLookup(j)
  \/ \E j \in DOMAIN running, outcome \in AnalyzerOutcomes : ExtractReplies(j, outcome)
  \/ \E j \in DOMAIN running, outcome \in AnalyzerOutcomes : ExtractPosts(j, outcome)
  \/ \E j \in DOMAIN running : ApiAttempt(j, NoApiResponse)
  \/ \E j \in DOMAIN running : OpenTab(j, FALSE)
  \/ \E a \in DOMAIN analysis, outcome \in AnalysisOutcomes : AnalysisEnds(a, outcome)
  \/ \E a \in DOMAIN analysis, c \in 1..MaxCalls, fullResponse \in ModelResponses :
       AnalyzeUserProfile(a, c, fullResponse)
  \/ \E a \in DOMAIN analysis, c \in 1..MaxCalls, reply \in PopupReplies :
       ProcessLLMAnalysis(a, c, reply)
  \/ \E c \in 1..MaxCalls : ProfileWrite(c)

SpecAnalyzer == InitAnalyzer /\ [][NextAnalyzer]_vars

\* ------------------------------------------------ the cache store and its callers
\* content.js, the listener of geo-tag-profile-extracted, up to the end of
\* its read: cache[username] = { region, timestamp, source } in its copy of
\* the map (no reader uses the source field; it is left out)
ProfileExtracted(c, username, location) ==
  /\ FreeSlot(c)
  /\ calls' = [calls EXCEPT ![c] =
        Call("contentSet", "content", username, "null",
             Put(storage.regionCache, username, RegionEntry(Str(location), now)), FALSE)]
  /\ last' = NoEvent
  /\ UNCHANGED <<injected, analysis, queueJobMax, queueVars, storage, tabs, now, nextTabId>>

\* content.js: await chrome.storage.local.set({ regionCache: cache })
ContentWrite(c) ==
  /\ calls[c].pc = "contentSet"
  /\ storage' = [storage EXCEPT !.regionCache = calls[c].snap]
  /\ calls' = [calls EXCEPT ![c] = Idle]
  /\ last' = NoEvent
  /\ UNCHANGED <<injected, analysis, queueJobMax, queueVars, tabs, now, nextTabId>>

\* { success: true, removedRegion, removedProfile }
Removed(removedRegion, removedProfile) ==
  [removedRegion |-> removedRegion, removedProfile |-> removedProfile]

\* the removeUserCache handler up to the end of removeUserCache's read; the
\* call's last field holds removedRegion
RemoveUserCacheCall(c, account) ==
  /\ FreeSlot(c)
  /\ LET cleanUsername == CleanUsername(account)
     IN calls' = [calls EXCEPT ![c] =
          IF cleanUsername \in DOMAIN storage.regionCache
          THEN Call("removeSet", "remove", cleanUsername, "null",
                    Delete(storage.regionCache, cleanUsername), FALSE)
          ELSE Call("removeProfile", "remove", cleanUsername, "null", EmptyMap, FALSE)]
  /\ last' = NoEvent
  /\ UNCHANGED <<injected, analysis, queueJobMax, queueVars, storage, tabs, now, nextTabId>>

\* removeUserCache: await chrome.storage.local.set(...); return true
RemoveWrite(c) ==
  /\ calls[c].pc = "removeSet"
  /\ storage' = [storage EXCEPT !.regionCache = calls[c].snap]
  /\ calls' = [calls EXCEPT ![c].pc = "removeProfile", ![c].snap = EmptyMap,
                                 ![c].purged = TRUE]
  /\ last' = NoEvent
  /\ UNCHANGED <<injected, analysis, queueJobMax, queueVars, tabs, now, nextTabId>>

\* removeUserProfileCache: the read; without an entry the handler answers
RemoveUserProfileCache(c) ==
  /\ calls[c].pc = "removeProfile"
  /\ IF calls[c].username \in DOMAIN storage.profileCache
     THEN /\ calls' = [calls EXCEPT ![c].pc = "removeProfileSet",
                         ![c].snap = Delete(storage.profileCache, calls[c].username)]
          /\ last' = NoEvent
     ELSE /\ calls' = [calls EXCEPT ![c] = Idle]
          /\ last' = Event("removeUserCache", calls[c].username, 0,
                           Removed(calls[c].purged, FALSE))
  /\ UNCHANGED <<injected, analysis, queueJobMax, queueVars, storage, tabs, now, nextTabId>>

\* removeUserProfileCache: await chrome.storage.local.set(...); return true
RemoveProfileWrite(c) ==
  /\ calls[c].pc = "removeProfileSet"
  /\ storage' = [storage EXCEPT !.profileCache = calls[c].snap]
  /\ calls' = [calls EXCEPT ![c] = Idle]
  /\ last' = Event("removeUserCache", calls[c].username, 0, Removed(calls[c].purged, TRUE))
  /\ UNCHANGED <<injected, analysis, queueJobMax, queueVars, tabs, now, nextTabId>>

\* clearCache / clearProfileCache: chrome.storage.local.remove([key])
ClearCacheCall(profiles) ==
  /\ storage' = IF profiles THEN [storage EXCEPT !.profileCache = EmptyMap]
                ELSE [storage EXCEPT !.regionCache = EmptyMap]
  /\ last' = NoEvent
  /\ UNCHANGED <<injected, analysis, queueJobMax, queueVars, tabs, calls, now, nextTabId>>

\* getAllCachedProfiles
GetAllCachedProfilesCall ==
  /\ last' = Event("getAllCachedProfiles", EmptyStr, 0, Listing(storage.profileCache))
  /\ UNCHANGED <<injected, analysis, queueJobMax, queueVars, storage, tabs, calls, now, nextTabId>>

\* the pageScrolled handler up to the end of getAllCachedRegions
PageScrolledRegions(c) ==
  /\ FreeSlot(c)
  /\ calls' = [calls EXCEPT ![c] =
        Call("scrollProfiles", "pageScrolled", EmptyStr, "null", storage.regionCache, FALSE)]
  /\ last' = NoEvent
  /\ UNCHANGED <<injected, analysis, queueJobMax, queueVars, storage, tabs, now, nextTabId>>

\* regionData['@' + username] = { region, profile } for every cached username
RegionData(regionCache, profileCache) ==
  [key \in {<<AT>> \o username : username \in DOMAIN regionCache} |->
     LET username == Tail(key)
     IN [region |-> regionCache[username].region,
         profile |-> IF username \in DOMAIN profileCache
                     THEN Str(profileCache[username].profile) ELSE NULL]]

\* the pageScrolled handler: getAllCachedProfiles, then showRegionLabels is sent
PageScrolledLabels(c) ==
  /\ calls[c].pc = "scrollProfiles"
  /\ calls' = [calls EXCEPT ![c] = Idle]
  /\ last' = Event("showRegionLabels", EmptyStr, 0,
                   Listing(RegionData(calls[c].snap, storage.profileCache)))
  /\ UNCHANGED <<injected, analysis, queueJobMax, queueVars, storage, tabs, now, nextTabId>>

\* Two users; one forced plain query for 'b' that finds its region on the fast
\* path and saves it; the content script's write for 'a'; removals asked for
\* 'a' and '@a'; profile writes, reads, listings and clears from the panel;
\* the clock moves while nothing is in progress.
StoreJobs == 1
StoreAccounts == {<<97>>, <<AT, 97>>}
StoreQueried == {<<98>>}
StoreApiResponses == {r \in ApiResponses : ApiUsable(r) /\ r.region = Str(TW)}

NextStore ==
  \/ \E c \in 1..MaxCalls, username \in StoreQueried :
       QueryUserRegion(c, username, "null", TRUE)
  \/ \E c \in 1..MaxCalls : Enqueue(c, StoreJobs)
  \/ \E j \in DOMAIN running, apiResponse \in StoreApiResponses : ApiAttempt(j, apiResponse)
  \/ \E j \in DOMAIN running : SaveGet(j)
  \/ \E j \in DOMAIN running : SaveSet(j)
  \/ \E j \in DOMAIN running : SaveReturn(j)
  \/ \E c \in 1..MaxCalls, username \in ProfileNames : ProfileExtracted(c, username, CN)
  \/ \E c \in 1..MaxCalls : ContentWrite(c)
  \/ \E c \in 1..MaxCalls, username \in ProfileNames, profile \in Profiles :
       SaveCachedProfileCall(c, username, profile)
  \/ \E c \in 1..MaxCalls : ProfileWrite(c)
  \/ \E c \in 1..MaxCalls, username \in ProfileNames : GetCachedRegionCall(c, username)
  \/ \E c \in 1..MaxCalls, username \in ProfileNames : GetCachedProfileCall(c, username)
  \/ \E c \in 1..MaxCalls : PurgeWrite(c)
  \/ \E c \in 1..MaxCalls, account \in StoreAccounts : RemoveUserCacheCall(c, account)
  \/ \E c \in 1..MaxCalls : RemoveWrite(c)
  \/ \E c \in 1..MaxCalls : RemoveUserProfileCache(c)
  \/ \E c \in 1..MaxCalls : RemoveProfileWrite(c)
  \/ \E profiles \in BOOLEAN : ClearCacheCall(profiles)
  \/ GetAllCachedRegionsCall(TRUE)
  \/ GetAllCachedProfilesCall
  \/ \E c \in 1..MaxCalls : PageScrolledRegions(c)
  \/ \E c \in 1..MaxCalls : PageScrolledLabels(c)
  \/ \E t \in TimePoints :
       running = EmptyMap /\ (\A c \in 1..MaxCalls : calls[c] = Idle) /\ Tick(t)

SpecStore == InitQueue /\ [][NextStore]_vars

\* ------------------------------------------------ the page script's lookups
\* injected.js answers every geo-tag-fetch-request with fetchProfileInfo; the
\* listener is async, so a request that arrives while an earlier one sleeps
\* in the rate limiter starts its own invocation.  Time is Date.now() in
\* milliseconds; a timer fires as soon as it is due.
restOfExtension == <<queueJobMax, queueVars, storage, tabs, calls, now, nextTabId, analysis>>

\* fetchProfileInfo up to its first await: without session tokens it returns
\* null; a request that comes less than RATE_LIMIT_MS after lastRequestTime
\* sleeps for the rest of the interval; otherwise the lookup is sent
FetchProfileInfo(hasTokens) ==
  /\ injected.nextRequestId <= MaxRequests
  /\ LET requestId == injected.nextRequestId
         elapsed == injected.clock - injected.lastRequestTime
     IN injected' =
          IF ~hasTokens
          THEN [injected EXCEPT !.nextRequestId = requestId + 1]
          ELSE IF elapsed < RATE_LIMIT_MS
          THEN [injected EXCEPT !.nextRequestId = requestId + 1,
                  !.timers = Put(@, requestId, injected.clock + (RATE_LIMIT_MS - elapsed))]
          ELSE [injected EXCEPT !.nextRequestId = requestId + 1,
                  !.lastRequestTime = injected.clock,
                  !.sent = Append(@, injected.clock)]
  /\ last' = NoEvent
  /\ UNCHANGED restOfExtension

\* the setTimeout of a sleeping request fires: lastRequestTime = Date.now()
\* and the lookup is sent
RateLimitElapsed(requestId) ==
  /\ requestId \in DOMAIN injected.timers
  /\ injected.timers[requestId] <= injected.clock
  /\ injected' = [injected EXCEPT !.timers = Delete(@, requestId),
                    !.lastRequestTime = injected.clock,
                    !.sent = Append(@, injected.clock)]
  /\ last' = NoEvent
  /\ UNCHANGED restOfExtension

\* time passes in the page while no timer is due
ClockAdvances ==
  /\ injected.clock < StartTime + MaxTicks * ClockStep
  /\ \A requestId \in DOMAIN injected.timers : injected.timers[requestId] > injected.clock
  /\ injected' = [injected EXCEPT !.clock = @ + ClockStep]
  /\ last' = NoEvent
  /\ UNCHANGED restOfExtension

NextRate ==
  \/ \E hasTokens \in BOOLEAN : FetchProfileInfo(hasTokens)
  \/ \E requestId \in 1..MaxRequests : RateLimitElapsed(requestId)
  \/ ClockAdvances

SpecRate == InitQueue /\ [][NextRate]_vars

\* ================================================================ claims
QueuedTasks == {queryQueue[i] : i \in 1..Len(queryQueue)}
ActiveTasks == {running[j].task : j \in DOMAIN running}

\* C1 (as stated): in every reachable state activeQueryCount <= queueJobMax.
C1_ActiveWithinLimit == activeQueryCount <= queueJobMax

\* C1 (amended): no step raises activeQueryCount above queueJobMax, and every
\* step that does not lower queueJobMax preserves activeQueryCount <= queueJobMax;
\* the bound is exceeded only after updateMaxConcurrent lowered the limit below
\* the number of jobs already running.
C1_DispatchWithinLimit ==
  [][ /\ (activeQueryCount' > activeQueryCount => activeQueryCount' <= queueJobMax')
      /\ ((activeQueryCount <= queueJobMax /\ queueJobMax' >= queueJobMax)
            => activeQueryCount' <= queueJobMax') ]_vars

\* a dispatch has saturated the limit and a task is left waiting
C1_Witness ==
  /\ activeQueryCount = queueJobMax
  /\ Len(queryQueue) > 0
  /\ lastDispatched >= 2

\* C2: no two jobs with the same username are pending or active at the same
\* time, and an enqueue for a username that is pending or active is rejected.
C2_DuplicateSuppression ==
  [][ /\ \A x, y \in QueuedTasks' \cup ActiveTasks' :
           x.username = y.username => x.id = y.id
      /\ \A c \in 1..MaxCalls :
           (Enqueue(c, MaxJobs)
              /\ \E x \in QueuedTasks \cup ActiveTasks : x.username = calls[c].username)
           => last'.op = "rejected" ]_vars

\* C4: tasks are dispatched in the order in which enqueue admitted them (ids
\* are handed out at admission): every waiting task was admitted after every
\* task dispatched so far, and the queue is in admission order.
C4_FifoDispatch ==
  /\ \A i \in 1..Len(queryQueue) : queryQueue[i].id > lastDispatched
  /\ \A i \in 1..(Len(queryQueue) - 1) : queryQueue[i].id < queryQueue[i + 1].id
  /\ \A j \in DOMAIN running : j <= lastDispatched

\* a plain and an integrated task wait while earlier tasks have been dispatched
C4_Witness ==
  /\ lastDispatched >= 1
  /\ Len(queryQueue) >= 2
  /\ \E x, y \in QueuedTasks : x.isIntegrated /\ ~y.isIntegrated

\* C5: updateMaxConcurrent(n) that raises the limit promotes, within the call,
\* min(len(pending), n - activeCount) tasks.
C5_RaiseAdmitsUpToLimit ==
  [][ \A value \in LimitValues :
        (UpdateMaxConcurrent(value) /\ ClampLimit(value) > queueJobMax)
        => activeQueryCount' - activeQueryCount
             = Min(Len(queryQueue), Max(0, ClampLimit(value) - activeQueryCount)) ]_vars

\* C6: when a job completes activeQueryCount is decremented and tasks are
\* dispatched until the queue is empty or the limit is reached; hence a
\* non-empty queue implies activeQueryCount >= queueJobMax.
C6_WorkConserving ==
  [][ Len(queryQueue') > 0 => activeQueryCount' >= queueJobMax' ]_vars

\* C3: the queue never holds more than queryQueueMax tasks, and an enqueue
\* (plain or integrated) attempted while it holds queryQueueMax tasks returns
\* null and leaves the queue as it was.
C3_CapacityBound ==
  [][ /\ Len(queryQueue') <= queryQueueMax
      /\ \A c \in 1..MaxCalls :
           (Enqueue(c, CapUsers) /\ Len(queryQueue) >= queryQueueMax)
           => (last'.op = "rejected" /\ queryQueue' = queryQueue
               /\ running' = running /\ activeQueryCount' = activeQueryCount) ]_vars

\* an integrated enqueue has just been refused by a full queue
C3_Witness ==
  /\ Len(queryQueue) = queryQueueMax
  /\ last.op = "rejected"
  /\ last.ret = ManualRejectedResult
  /\ ~IsAlreadyInQueue(queryQueue, last.key)

\* a plain enqueue has just been refused by a full queue
C3_WitnessPlain ==
  /\ Len(queryQueue) = queryQueueMax
  /\ last.op = "rejected"
  /\ last.ret = QueueRejectedResult
  /\ ~IsAlreadyInQueue(queryQueue, last.key)

\* age of a stored entry, in days
Age(entry) == now - entry.timestamp

\* C7: in both namespaces a get of an entry younger than CACHE_EXPIRY_DAYS
\* returns the stored value and leaves storage as it is; a get of an entry
\* aged CACHE_EXPIRY_DAYS or more returns nothing before its delete-and-write
\* step, that step removes the key from storage, and the get then returns
\* null; queryUserRegion's own get behaves the same way.
C7_CacheTtlFailClosed ==
  [][ /\ \A c \in 1..MaxCalls, username \in Names :
           (GetCachedRegionCall(c, username) /\ username \in DOMAIN storage.regionCache)
           => IF Age(storage.regionCache[username]) < CACHE_EXPIRY_DAYS
              THEN /\ last' = Event("getCachedRegion", username, 0,
                                    GetResponse(storage.regionCache[username].region))
                   /\ storage' = storage
              ELSE /\ last' = NoEvent
                   /\ calls'[c].pc = "purge"
      /\ \A c \in 1..MaxCalls, username \in ProfileNames :
           (GetCachedProfileCall(c, username) /\ username \in DOMAIN storage.profileCache)
           => IF Age(storage.profileCache[username]) < CACHE_EXPIRY_DAYS
              THEN /\ last' = Event("getCachedProfile", username, 0,
                                    GetResponse(Str(storage.profileCache[username].profile)))
                   /\ storage' = storage
              ELSE /\ last' = NoEvent
                   /\ calls'[c].pc = "purge"
      /\ \A c \in 1..MaxCalls, username \in RawNames :
           (/\ QueryUserRegion(c, username, "null", FALSE)
            /\ CleanUsername(username) \in DOMAIN storage.regionCache
            /\ Age(storage.regionCache[CleanUsername(username)]) >= CACHE_EXPIRY_DAYS)
           => (last' = NoEvent /\ calls'[c].pc = "purge")
      /\ \A c \in 1..MaxCalls :
           PurgeWrite(c)
           => /\ calls[c].kind = "getProfile"
                   => (/\ calls[c].username \notin DOMAIN storage'.profileCache
                       /\ last'.ret = GetResponse(NULL))
              /\ calls[c].kind = "getRegion"
                   => (/\ calls[c].username \notin DOMAIN storage'.regionCache
                       /\ last'.ret = GetResponse(NULL))
              /\ calls[c].kind = "query"
                   => (/\ calls[c].username \notin DOMAIN storage'.regionCache
                       /\ last'.op # "cacheHit") ]_vars

\* a region entry written on day 0 has just been read on day CACHE_EXPIRY_DAYS:
\* the get returned null and the entry is gone
C7_Witness ==
  /\ last.op = "getCachedRegionExpired"
  /\ last.ret = GetResponse(NULL)
  /\ now = CACHE_EXPIRY_DAYS
  /\ last.key \notin DOMAIN storage.regionCache

\* C8 (as stated): when a job for key K settles with success, the region cache
\* holds an entry for K and a queryUserRegion(K) made at once is a cache hit.
C8_WriteThroughOnSuccess ==
  [][ (last'.op = "settled" /\ last'.ret.success)
      => /\ last'.key \in DOMAIN storage'.regionCache
         /\ GetCachedRegion(storage'.regionCache, last'.key, now').ret # NULL ]_vars

\* C9 (as stated): queryUserRegion(username, _, false) that finds an unexpired
\* region entry for the normalised username returns the cache-hit result and
\* leaves the queue, the running jobs and the pending calls as they were.
C9_CacheHitShortCircuit ==
  [][ \A c \in 1..MaxCalls, username \in RawNames :
        (/\ QueryUserRegion(c, username, "null", FALSE)
         /\ CleanUsername(username) \in DOMAIN storage.regionCache
         /\ Age(storage.regionCache[CleanUsername(username)]) < CACHE_EXPIRY_DAYS)
        => /\ last'.op = "cacheHit"
           /\ last'.ret = CacheHitResult(storage.regionCache[CleanUsername(username)].region)
           /\ UNCHANGED <<queryQueue, activeQueryCount, running, calls>> ]_vars

\* C10 (as stated): a rejected enqueue returns success = false with an error
\* message and changes neither the queue, the running jobs, the caches nor
\* the open tabs.
C10_RejectedEnqueueFailsCleanly ==
  [][ \A c \in 1..MaxCalls :
        (Enqueue(c, MaxJobs) /\ last'.op = "rejected")
        => /\ ~last'.ret.success
           /\ last'.ret.error # ""
           /\ UNCHANGED <<queryQueue, activeQueryCount, running, storage, tabs>> ]_vars

\* autoQueryRegion's answer when the "based in" field was not found
FieldAbsent == [kind |-> "success", region |-> NULL]

\* C11 (as stated): whatever the keep-tab policy, a job whose autoQueryRegion
\* answer is { success: true, region: null } goes on to return
\* { success: true, region: null }; that answer never ends the job in failure.
C11_FieldAbsentIsSuccess ==
  [][ \A j \in DOMAIN running :
        AutoQueryResponse(j, FieldAbsent)
        => (j \in DOMAIN running' /\ running'[j].res = SlowResult(NULL)) ]_vars

\* C12 (as stated): when a job settles { success: true, region: null }, the
\* region cache holds for its key an entry whose value is a sentinel (not
\* null), so that getCachedRegion reports a hit.
C12_UndisclosedIsCached ==
  [][ (last'.op = "settled" /\ last'.ret.success /\ last'.ret.region = NULL)
      => /\ last'.key \in DOMAIN storage'.regionCache
         /\ storage'.regionCache[last'.key].region # NULL ]_vars

\* C13: a rate-limited answer of the fast path moves the same job to the slow
\* path and returns nothing to the caller; a job never goes back to the fast
\* path once it has left it; a rate-limited job that succeeds has written its
\* region to the cache before it returns, and whatever it returns does not
\* carry source "api_intercept".
C13_RateLimitedFallback ==
  [][ /\ \A j \in DOMAIN running, r \in ApiResponses :
           (r.rateLimited /\ ApiAttempt(j, r))
           => /\ j \in DOMAIN running'
              /\ running'[j].pc = "slow"
              /\ last' = NoEvent
              /\ storage' = storage
      /\ \A j \in DOMAIN running \cap DOMAIN running' :
           running[j].pc \notin {"profile", "extract", "posts", "fast"}
             => running'[j].pc # "fast"
      /\ \A j \in DOMAIN running :
           (running[j].rateLimited /\ SaveSet(j))
           => /\ running[j].res.source # "api_intercept"
              /\ JobKey(j) \in DOMAIN storage'.regionCache
              /\ storage'.regionCache[JobKey(j)].region = running[j].res.region
      /\ \A j \in DOMAIN running :
           (running[j].rateLimited /\ j \notin DOMAIN running')
           => /\ last'.op = "settled" /\ last'.id = j
              /\ last'.ret.source # "api_intercept"
              /\ last'.ret.error # "RateLimited"
              /\ last'.ret.success
                   => (running[j].pc = "saveRet" /\ last'.ret = running[j].res) ]_vars

\* a rate-limited job has found a region on the slow path, has written it to
\* the cache and is about to return it
C13_Witness ==
  \E j \in DOMAIN running :
    /\ running[j].rateLimited
    /\ running[j].pc = "saveRet"
    /\ running[j].res = SlowResult(Str(CN))
    /\ JobKey(j) \in DOMAIN storage.regionCache
    /\ storage.regionCache[JobKey(j)].region = Str(CN)

\* C14 (as stated): a plain job that returns a fast-path result returns
\* { success: true, region: L, source: "api_intercept" }, has opened no tab,
\* and leaves the region cache such that getCachedRegion for its key returns L.
C14_FastPathHit ==
  [][ \A j \in DOMAIN running :
        (/\ ~running[j].task.isIntegrated
         /\ last'.op = "settled" /\ last'.id = j
         /\ last'.ret.source = "api_intercept")
        => /\ last'.ret = ApiResult(last'.ret.region)
           /\ last'.ret.region # NULL
           /\ running[j].tab = 0
           /\ tabs' = tabs
           /\ GetCachedRegion(storage'.regionCache, JobKey(j), now').ret = last'.ret.region ]_vars

\* autoQueryRegion's answers that carry a region
RegionFound == {r \in AutoQueryResponses : r.kind = "success" /\ r.region # NULL}

\* R contains F, F trimmed, letter case ignored
ContainsFilter(R, F) == Includes(ToLowerCase(R), ToLowerCase(Trim(F)))

\* C15 (as stated): after a slow-path success with region R, under
\* shouldKeepTab and a non-empty filter F the job's tab stays open iff R does
\* not contain F; without shouldKeepTab the tab is closed.
C15_KeepTabFilter ==
  [][ \A j \in DOMAIN running, r \in RegionFound :
        AutoQueryResponse(j, r)
        => LET task == running[j].task
           IN /\ (task.shouldKeepTab /\ Len(task.keepTabFilter) > 0)
                   => (running[j].tab \in tabs'
                         <=> ~ContainsFilter(r.region[1], task.keepTabFilter))
              /\ ~task.shouldKeepTab => running[j].tab \notin tabs' ]_vars

\* C15 (amended): the filter decides only when it is not blank; under
\* shouldKeepTab and a filter that is empty or all spaces the tab stays open
\* whatever the region; without shouldKeepTab the tab is closed.
C15_KeepTabFilterNotBlank ==
  [][ \A j \in DOMAIN running, r \in RegionFound :
        AutoQueryResponse(j, r)
        => LET task == running[j].task
           IN /\ (task.shouldKeepTab /\ Trim(task.keepTabFilter) # EmptyStr)
                   => (running[j].tab \in tabs'
                         <=> ~ContainsFilter(r.region[1], task.keepTabFilter))
              /\ (task.shouldKeepTab /\ Trim(task.keepTabFilter) = EmptyStr)
                   => running[j].tab \in tabs'
              /\ ~task.shouldKeepTab => running[j].tab \notin tabs' ]_vars

\* under shouldKeepTab and the filter " tw" a job found the region "CN" and
\* its tab is still open
C15_Witness ==
  \E j \in DOMAIN running :
    /\ running[j].pc = "saveGet"
    /\ running[j].res = SlowResult(Str(CN))
    /\ running[j].task.shouldKeepTab
    /\ Trim(running[j].task.keepTabFilter) = <<116, 119>>
    /\ running[j].tab \in tabs

\* C16: under shouldKeepTab and a filter that is not blank, a job that ends
\* with a failure (failure answer, exception, content script not loaded)
\* returns { success: false, error } with an error message and leaves the tab
\* it holds, or has just created, open.
C16_FailureKeepsTab ==
  [][ \A j \in DOMAIN running :
        (/\ KeepFilterActive(running[j].task)
         /\ last'.op = "settled" /\ last'.id = j
         /\ ~last'.ret.success)
        => /\ last'.ret = FailResult(last'.ret.error)
           /\ last'.ret.error # ""
           /\ running[j].tab # 0 => running[j].tab \in tabs'
           /\ ExtractReplies(j, "sendFails") => nextTabId \in tabs' ]_vars

\* the only job so far ran under a stored filter that is not blank, failed
\* because the content script never answered, and its tab is still open
C16_Witness ==
  /\ last.op = "settled"
  /\ last.ret = FailResult("ContentScriptNotLoaded")
  /\ nextJobId = 2
  /\ running = EmptyMap
  /\ Trim(storage.keepTabFilter) # EmptyStr
  /\ tabs # {}

C18_FailureIsolated ==
  [][ \A j \in DOMAIN running :
        (last'.op = "settled" /\ last'.id = j /\ ~last'.ret.success)
        => LET dispatch == Len(queryQueue) > 0 /\ activeQueryCount - 1 < queueJobMax
           IN /\ activeQueryCount' = activeQueryCount - 1 + (IF dispatch THEN 1 ELSE 0)
              /\ activeQueryCount' = Cardinality(DOMAIN running')
              /\ queryQueue' = IF dispatch THEN Tail(queryQueue) ELSE queryQueue
              /\ DOMAIN running' =
                   (DOMAIN running \ {j})
                     \cup (IF dispatch THEN {Head(queryQueue).id} ELSE {})
              /\ dispatch => running'[Head(queryQueue).id].task = Head(queryQueue)
              /\ \A k \in DOMAIN running \ {j} : running'[k] = running[k]
              /\ storage' = storage
              /\ calls' = calls ]_vars

\* a job has just failed, the task behind it was dispatched in its place and
\* another job is still running
C18_Witness ==
  /\ last.op = "settled"
  /\ ~last.ret.success
  /\ lastDispatched > last.id
  /\ lastDispatched \in DOMAIN running
  /\ running[lastDispatched].pc \in {"fast", "profile"}
  /\ Cardinality(DOMAIN running) >= 2
  /\ activeQueryCount = 2

\* C19 (as stated): a put is a single-key upsert, so the write of
\* saveCachedRegion for key K leaves the entries of all other keys as they
\* are in storage.
C19_PutTouchesOneKey ==
  [][ \A j \in DOMAIN running :
        SaveSet(j)
        => \A k \in (DOMAIN storage.regionCache) \ {JobKey(j)} :
             /\ k \in DOMAIN storage'.regionCache
             /\ storage'.regionCache[k] = storage.regionCache[k] ]_vars

\* task id is waiting in queryQueue
Pending(id) == \E i \in 1..Len(queryQueue) : queryQueue[i].id = id

\* C20: a task never waits while no job is running; every waiting task is
\* eventually dispatched and every dispatched job eventually settles and
\* leaves the running set, whatever enqueues and limit changes interleave.
C20_AdmittedJobsFinish ==
  /\ [](Len(queryQueue) > 0 => activeQueryCount > 0)
  /\ \A id \in 1..LiveJobs : Pending(id) ~> (id \in DOMAIN running)
  /\ \A id \in 1..LiveJobs :
       (id \in DOMAIN running)
         ~> (id \notin DOMAIN running /\ ~Pending(id) /\ id < nextJobId)

\* job 1 has returned a success while the limit is 1, and task 2, dispatched
\* last, is the only running job and has not taken a step
C20_Witness ==
  /\ last.op = "settled"
  /\ last.id = 1
  /\ last.ret.success
  /\ queueJobMax = 1
  /\ lastDispatched = 2
  /\ DOMAIN running = {2}
  /\ running[2].pc \in {"fast", "profile"}

\* the part of a job after the profile part: the region resolution
RegionPcs == {"fast", "slow", "ping", "query", "saveGet", "saveSet", "saveRet"}

\* a step of the side panel's analysis, or of the profile write it asked for
AnalysisStep ==
  \/ \E a \in DOMAIN analysis, outcome \in AnalysisOutcomes : AnalysisEnds(a, outcome)
  \/ \E a \in DOMAIN analysis, c \in 1..MaxCalls, profile \in Profiles :
       AnalysisSaves(a, c, profile)
  \/ \E c \in 1..MaxCalls : ProfileWrite(c)

\* C21: a job calls onProfileContentReady at most once, only in its profile
\* part, and is at the start of the region resolution right after the call;
\* the region resolution never calls it and touches neither the pending
\* analyses nor the profile cache; a step of the analysis (success, failure)
\* changes no job, no tab, not the queue and not the region cache; a job
\* that ends with a success returns the result its region resolution built.
C21_AnalysisDecoupled ==
  [][ /\ \A j \in DOMAIN running :
           /\ running[j].cb <= 1
           /\ j \in DOMAIN running'
                => /\ running'[j].cb <= 1
                   /\ running'[j].cb # running[j].cb
                        => /\ running[j].pc \in {"profile", "posts"}
                           /\ running'[j].pc = "fast"
                           /\ j \in DOMAIN analysis'
                   /\ (running[j].pc \in RegionPcs /\ running'[j] # running[j])
                        => /\ running'[j].cb = running[j].cb
                           /\ running'[j].pc \in RegionPcs
                           /\ analysis' = analysis
                           /\ storage'.profileCache = storage.profileCache
           /\ (last'.op = "settled" /\ last'.id = j /\ last'.ret.success)
                => /\ last'.ret = running[j].res
                   /\ analysis' = analysis
      /\ AnalysisStep
           => /\ UNCHANGED <<running, queryQueue, activeQueryCount, tabs, queueJobMax>>
              /\ storage'.regionCache = storage.regionCache
              /\ last' = NoEvent ]_vars

\* a job has returned its region on the tab path while the analysis that its
\* callback asked for is still pending in the side panel
C21_Witness ==
  /\ last.op = "settled"
  /\ last.ret = SlowResult(Str(TW))
  /\ last.id \in DOMAIN analysis
  /\ analysis[last.id].profileData.needAnalysis

\* the job's profile cache entry is present and has not expired
ProfileCached(j) ==
  GetCachedProfile(storage.profileCache, JobKey(j), now).ret # NULL

\* C22: when a job with the analysis enabled finds a valid profile entry, it
\* calls onProfileContentReady once with { fromCache: true, profile } of that
\* entry, opens no tab and extracts no text, and goes on with the frame a plain
\* query starts with; from there it never enters the extraction.
C22_ProfileCacheHit ==
  [][ \A j \in DOMAIN running :
        /\ (running[j].task.enableProfileAnalysis /\ ProfileCached(j) /\ ProfileLookup(j))
             => /\ running'[j].cb = 1
                /\ [running'[j] EXCEPT !.cb = 0]
                     = [NewFrame(running[j].task) EXCEPT !.pc = "fast"]
                /\ analysis'[j].account = running[j].task.username
                /\ analysis'[j].profileData
                     = CachedProfileData(storage.profileCache[JobKey(j)].profile)
                /\ UNCHANGED <<tabs, nextTabId, storage>>
        /\ (j \in DOMAIN running' /\ j \in DOMAIN analysis /\ running[j].cb = 1
              /\ analysis[j].profileData.fromCache)
             => /\ running'[j].pc \notin {"extract", "posts"}
                /\ running'[j].userReplyContent = EmptyStr
                /\ running'[j].cb = 1 ]_vars

\* a job that found its profile in the cache has called onProfileContentReady
\* with it and is on the tab path of the region resolution with its own tab
C22_Witness ==
  \E j \in DOMAIN running :
    /\ running[j].cb = 1
    /\ j \in DOMAIN analysis
    /\ analysis[j].profileData = CachedProfileData(<<80>>)
    /\ running[j].pc = "query"
    /\ running[j].tab \in tabs

\* the text that the posts view gives for an outcome
PostTextOf(outcome) == IF outcome = "text" THEN PostText ELSE EmptyStr

\* the replies view, then the posts view, in one tab: the tab is created by
\* the replies step, the posts step follows it and keeps the tab
ViewsInOrder(j) ==
  /\ (j \in DOMAIN running' /\ running'[j].pc = "posts" /\ running[j].pc # "posts")
       => /\ running[j].pc = "extract"
          /\ running[j].tab = 0
          /\ running'[j].tab = nextTabId
          /\ tabs' = tabs \cup {nextTabId}
  /\ (j \in DOMAIN running' /\ running[j].pc = "posts" /\ running'[j] # running[j])
       => /\ running'[j].pc = "fast"
          /\ running'[j].tab = running[j].tab
          /\ tabs' = tabs

\* C23 (as stated): after the two extraction attempts of a profile cache miss
\* the job calls onProfileContentReady exactly once with
\* { needAnalysis: true, postText, replyText }, before the region resolution.
C23_ExtractionThenCallback ==
  [][ \A j \in DOMAIN running :
        /\ ViewsInOrder(j)
        /\ \A outcome \in {"text", "noText"} :
             ExtractPosts(j, outcome)
             => /\ running'[j].cb = 1
                /\ running'[j].pc = "fast"
                /\ j \in DOMAIN analysis'
                /\ analysis'[j].profileData
                     = ExtractedProfileData(PostTextOf(outcome),
                                            running[j].userReplyContent) ]_vars

\* C23 (amended): after the two extraction attempts the job calls
\* onProfileContentReady exactly once with the two texts when at least one of
\* them is not empty, and does not call it when both are empty; in both cases
\* the region resolution comes next.
C23_CallbackWhenTextExtracted ==
  [][ \A j \in DOMAIN running :
        /\ ViewsInOrder(j)
        /\ \A outcome \in {"text", "noText"} :
             ExtractPosts(j, outcome)
             => /\ running'[j].pc = "fast"
                /\ running[j].cb = 0
                /\ IF PostTextOf(outcome) # EmptyStr
                      \/ running[j].userReplyContent # EmptyStr
                   THEN /\ running'[j].cb = 1
                        /\ j \in DOMAIN analysis'
                        /\ analysis'[j].account = running[j].task.username
                        /\ analysis'[j].profileData
                             = ExtractedProfileData(PostTextOf(outcome),
                                                    running[j].userReplyContent)
                   ELSE /\ running'[j].cb = 0
                        /\ analysis' = analysis ]_vars

\* a job has extracted text from the replies view only and has handed it to
\* onProfileContentReady
C23_Witness ==
  \E j \in DOMAIN running :
    /\ running[j].pc = "fast"
    /\ running[j].cb = 1
    /\ running[j].tab \in tabs
    /\ j \in DOMAIN analysis
    /\ analysis[j].profileData = ExtractedProfileData(EmptyStr, ReplyText)

\* what the handlers and jobs of the model return
ReturnOps ==
  {"none", "cacheHit", "getCachedRegion", "getCachedRegionExpired", "settled",
   "admitted", "rejected", "getCacheStats", "getAllCachedRegions"}

\* C24: when the read of getCachedRegion throws, queryUserRegion goes on as
\* after a miss and enqueues the job, with the stored settings or, when that
\* read throws too, with the defaults; when the purge of an expired entry
\* throws, the result is null and storage is as before; when saveCachedRegion
\* throws, the job still returns the success result it had; getCacheStats
\* returns zero counts and getAllCachedRegions an empty map when their read
\* throws; nothing but a result is ever returned.
C24_CacheFailuresDegrade ==
  [][ /\ last'.op \in ReturnOps
      /\ \A c \in 1..MaxCalls :
           /\ \A username \in FaultNames, shouldKeepTab \in ShouldKeepTabArgs :
                QueryUserRegionReadThrows(c, username, shouldKeepTab)
                => /\ calls'[c] = Call("settings", "query", CleanUsername(username),
                                       shouldKeepTab, EmptyMap, FALSE)
                   /\ last' = NoEvent
           /\ (Enqueue(c, FaultJobs) \/ EnqueueDefaults(c, FaultJobs))
                => /\ last'.op \in {"admitted", "rejected"}
                   /\ last'.op = "admitted"
                        <=> ~IsAlreadyInQueue(queryQueue, calls[c].username)
                   /\ last'.op = "admitted"
                        => \E t \in QueuedTasks' \cup ActiveTasks' :
                             /\ t.id = last'.id
                             /\ t.username = calls[c].username
           /\ EnqueueDefaults(c, FaultJobs)
                => \A t \in QueuedTasks' \cup ActiveTasks' :
                     t.id = last'.id
                     => /\ t.keepTabFilter = EmptyStr
                        /\ t.shouldKeepTab = (calls[c].shouldKeepTab = "true")
           /\ PurgeThrows(c)
                => /\ storage' = storage
                   /\ calls[c].kind = "query" => calls'[c].pc = "settings"
                   /\ calls[c].kind = "getRegion" => last'.ret = GetResponse(NULL)
           /\ \A username \in ProfileNames :
                GetCachedRegionCallThrows(c, username) => last'.ret = GetResponse(NULL)
      /\ \A j \in DOMAIN running :
           /\ SaveThrows(j)
                => /\ storage' = storage
                   /\ j \in DOMAIN running'
                   /\ running'[j].pc = "saveRet"
                   /\ running'[j].res = running[j].res
           /\ SaveReturn(j)
                => /\ last'.ret = running[j].res
                   /\ last'.ret.success
                   /\ last'.ret.region # NULL
      /\ GetCacheStatsCall(FALSE) => last'.ret = ZeroStats
      /\ GetCacheStatsCall(TRUE)
           => /\ last'.ret.totalCount = Cardinality(DOMAIN storage.regionCache)
              /\ last'.ret.totalCount = last'.ret.validCount + last'.ret.expiredCount
      /\ GetAllCachedRegionsCall(FALSE) => last'.ret.cache = EmptyMap
      /\ GetAllCachedRegionsCall(TRUE) => last'.ret.cache = storage.regionCache ]_vars

\* a query was admitted although the region cache held a valid entry for its
\* user since before the call began: the read of getCachedRegion threw
C24_Witness ==
  /\ last.op = "admitted"
  /\ last.key \in DOMAIN storage.regionCache
  /\ storage.regionCache[last.key].timestamp < now
  /\ IsFresh(storage.regionCache[last.key], now)

\* C25: queueJobMax is always an integer from 1 to 10: updateMaxConcurrent
\* stores an integer from 1 to 10 as it is, and any other value (below 1,
\* above 10, zero, negative, not numeric) as an integer from 1 to 10.
C25_LimitInRange ==
  /\ [](queueJobMax \in MinJobMax..MaxJobMax)
  /\ [][ \A value \in RangeLimitValues :
           UpdateMaxConcurrent(value)
           => /\ queueJobMax' \in MinJobMax..MaxJobMax
              /\ (value.numeric /\ value.n \in MinJobMax..MaxJobMax)
                   => queueJobMax' = value.n ]_vars

\* the limit is at its upper bound while two jobs run
C25_Witness ==
  /\ queueJobMax = MaxJobMax
  /\ activeQueryCount = LimitJobs

C27_PingLoopBounded ==
  [][ \A j \in DOMAIN running, firstSuccess \in PingInputs :
        LET loop == PingLoop(firstSuccess, 0)
        IN PingReady(j, loop.contentScriptReady)
           => /\ loop.pings <= PingRetries
              /\ loop.contentScriptReady <=> firstSuccess < PingRetries
              /\ loop.contentScriptReady
                   => /\ loop.pings = firstSuccess + 1
                      /\ j \in DOMAIN running'
                      /\ running'[j].pc = "query"
              /\ ~loop.contentScriptReady
                   => /\ loop.pings = PingRetries
                      /\ last' = Event("settled", JobKey(j), j,
                                       FailResult("ContentScriptNotLoaded"))
                      /\ j \notin DOMAIN running'
                      /\ storage' = storage
                      /\ running[j].tab \in tabs' <=> running[j].task.shouldKeepTab
                      /\ tabs' \subseteq tabs ]_vars

\* a job whose pings all failed has returned the failure, its tab left open
C27_Witness ==
  /\ last.op = "settled"
  /\ last.ret = FailResult("ContentScriptNotLoaded")
  /\ tabs # {}
  /\ running = EmptyMap

\* the tags that a saveCachedProfile in flight carries
SavedTags ==
  UNION { {calls[c].snap[u].profile : u \in DOMAIN calls[c].snap} :
            c \in {d \in 1..MaxCalls : calls[d].pc = "profileSet"} }

\* the label of an entry of the tags string: the text before its colon
LabelOf(entry) ==
  LET i == IndexOf(entry, Colon)
  IN IF i = -1 THEN entry ELSE Substring(entry, 0, i)

\* C28 (as stated): the tags of every successful analysis are a comma-joined
\* list of at most 5 label[:reason] entries whose labels are 2 to 6
\* characters long.
C28_TagsBounded ==
  \A tags \in SavedTags :
    \/ tags = EmptyStr
    \/ LET parts == Split(tags)
       IN /\ Len(parts) <= MAX_TAGS
          /\ \A i \in 1..Len(parts) :
               Len(LabelOf(parts[i])) >= 2 /\ Len(LabelOf(parts[i])) <= MAX_TAG_LENGTH

\* C29 (as stated): no two tasks that wait in queryQueue, plain or integrated,
\* are for the same user once a leading '@' is removed from their usernames.
C29_QueueKeysNormalized ==
  \A i, k \in 1..Len(queryQueue) :
    i # k => CleanUsername(queryQueue[i].username) # CleanUsername(queryQueue[k].username)

\* the keep-tab policy for the result a job returns: the tab stays open when
\* shouldKeepTab is set, unless a filter that is not blank is contained in
\* the region found
PolicyKeepsTab(task, ret) ==
  /\ task.shouldKeepTab
  /\ (ret.success /\ ret.region # NULL /\ Trim(task.keepTabFilter) # EmptyStr)
       => ~Includes(ToLowerCase(ret.region[1]), ToLowerCase(Trim(task.keepTabFilter)))

\* C30 (as stated): when an integrated job that has created a tab returns,
\* on whatever path, its tab is open exactly when the keep-tab policy keeps
\* it for the result returned.
C30_IntegratedTabFollowsPolicy ==
  [][ \A j \in DOMAIN running :
        ( /\ running[j].task.isIntegrated
          /\ running[j].tab # 0
          /\ j \notin DOMAIN running'
          /\ last'.op = "settled"
          /\ last'.id = j )
        => (running[j].tab \in tabs' <=> PolicyKeepsTab(running[j].task, last'.ret)) ]_vars

\* a write of the cache store: saveCachedRegion, saveCachedProfile, the
\* expiry purge of a get, a removal or a clear
StoreWrite ==
  \/ \E j \in DOMAIN running : SaveSet(j)
  \/ \E c \in 1..MaxCalls :
       PurgeWrite(c) \/ ProfileWrite(c) \/ RemoveWrite(c) \/ RemoveProfileWrite(c)
  \/ \E profiles \in BOOLEAN : ClearCacheCall(profiles)

\* C31 (as stated): the stored regionCache and profileCache maps change only
\* in a write of the cache store.
C31_StoreOwnsEntries ==
  [][ (storage'.regionCache # storage.regionCache
        \/ storage'.profileCache # storage.profileCache) => StoreWrite ]_vars

\* C32 (as stated): no read returns an entry that is 30 days old or older:
\* not getCachedRegion or getCachedProfile, not getAllCachedRegions or
\* getAllCachedProfiles, and the labels sent to the page after a scroll are
\* built from fresh entries only.
C32_ExpiredNeverRead ==
  [][ /\ (last'.op = "getCachedRegion" /\ last'.ret.region # NULL)
           => IsFresh(storage.regionCache[last'.key], now)
      /\ (last'.op = "getCachedProfile" /\ last'.ret.region # NULL)
           => IsFresh(storage.profileCache[last'.key], now)
      /\ last'.op \in {"getAllCachedRegions", "getAllCachedProfiles"}
           => \A username \in DOMAIN last'.ret.cache :
                IsFresh(last'.ret.cache[username], now')
      /\ \A c \in 1..MaxCalls :
           PageScrolledLabels(c)
           => \A username \in DOMAIN calls[c].snap : IsFresh(calls[c].snap[username], now) ]_vars

Phase(q, run, next, id) ==
  IF id >= next THEN 0
  ELSE IF \E i \in 1..Len(q) : q[i].id = id THEN 1
  ELSE IF id \in DOMAIN run THEN 2
  ELSE 3

\* C34: a job is never waiting and running at once and is in the queue at
\* most once; its phase never goes back, a waiting job only becomes a
\* running one, and a job is settled only from the running phase; the step
\* that ends its running phase is the one step that settles its promise, with
\* the result its own execution computed; when dispatched it starts from a
\* new frame for its own task, and while it runs its task stays the same.
C34_LifecycleMonotone ==
  /\ [](\A id \in 1..LiveJobs :
          /\ ~(Pending(id) /\ id \in DOMAIN running)
          /\ Cardinality({i \in 1..Len(queryQueue) : queryQueue[i].id = id}) <= 1
          /\ (Pending(id) \/ id \in DOMAIN running) => id < nextJobId)
  /\ [][ \A id \in 1..LiveJobs :
           LET before == Phase(queryQueue, running, nextJobId, id)
               after == Phase(queryQueue', running', nextJobId', id)
               settled == last'.op = "settled" /\ last'.id = id
           IN /\ after >= before
              /\ before = 0 => after \in {0, 1, 2}
              /\ before = 1 => after \in {1, 2}
              /\ settled <=> (before = 2 /\ after = 3)
              /\ settled
                   => /\ last'.key = JobKey(id)
                      /\ IF last'.ret.success
                         THEN running[id].pc = "saveRet" /\ last'.ret = running[id].res
                         ELSE running[id].pc = "slow" /\ last'.ret = FailResult("TabError")
              /\ (before = 1 /\ after = 2)
                   => /\ queryQueue[1].id = id
                      /\ running'[id] = NewFrame(queryQueue[1])
              /\ (before = 0 /\ after = 2)
                   => /\ last'.op = "admitted" /\ last'.id = id
                      /\ running'[id].task.id = id
                      /\ running'[id] = NewFrame(running'[id].task)
              /\ (before = 2 /\ after = 2)
                   => running'[id].task = running[id].task ]_vars

\* both admitted jobs are through; job 2, settled last under a limit of 1,
\* got the success of its own fast path
C34_Witness ==
  /\ last.op = "settled"
  /\ last.id = 2
  /\ last.ret.success
  /\ last.ret.region = Str(TW)
  /\ queueJobMax = 1
  /\ nextJobId = 3
  /\ running = EmptyMap
  /\ queryQueue = <<>>
  /\ storage.regionCache # EmptyMap

\* C35 (as stated): queryUserRegion with forceRefresh = true goes to the
\* queue without a cache hit and without touching storage, also when a valid
\* entry exists; when a job settles with success the region cache holds for
\* its key the region of the result with the timestamp of the save; a job
\* writes the cache only on its way to a success, and the step that settles
\* a failure leaves the cache as it was.
C35_ForceRefreshBypassesCache ==
  [][ /\ \A c \in 1..MaxCalls, username \in RawNames :
           QueryUserRegion(c, username, "null", TRUE)
           => /\ calls'[c].pc = "settings"
              /\ calls'[c].username = CleanUsername(username)
              /\ last'.op # "cacheHit"
              /\ storage' = storage
      /\ (last'.op = "settled" /\ last'.ret.success)
           => /\ last'.key \in DOMAIN storage'.regionCache
              /\ storage'.regionCache[last'.key] = RegionEntry(last'.ret.region, now')
      /\ \A j \in DOMAIN running :
           SaveSet(j) => (running[j].res.success /\ running'[j].pc = "saveRet")
      /\ (last'.op = "settled" /\ ~last'.ret.success)
           => storage'.regionCache = storage.regionCache ]_vars

\* C36 (as stated): removeUserCache looks the entry up under the username
\* without its leading @ and writes exactly when one is stored, fresh or
\* expired; its write removes that key from the region cache and leaves the
\* other keys and the profile cache as they are, and the write of
\* removeUserProfileCache does the same in the profile cache; the handler
\* answers true for a namespace exactly when the call wrote it.
C36_RemoveSemantics ==
  [][ \A c \in 1..MaxCalls :
        /\ \A account \in StoreAccounts :
             RemoveUserCacheCall(c, account)
             => /\ calls'[c].username = <<97>>
                /\ (calls'[c].pc = "removeSet") <=> (<<97>> \in DOMAIN storage.regionCache)
                /\ ~calls'[c].purged
        /\ RemoveWrite(c)
             => /\ storage'.regionCache = Delete(storage.regionCache, calls[c].username)
                /\ storage'.profileCache = storage.profileCache
                /\ calls'[c].purged
        /\ RemoveUserProfileCache(c)
             => /\ (calls'[c].pc = "removeProfileSet")
                     <=> (calls[c].username \in DOMAIN storage.profileCache)
                /\ calls'[c].pc = "idle"
                     => last'.ret = Removed(calls[c].purged, FALSE)
        /\ RemoveProfileWrite(c)
             => /\ storage'.profileCache = Delete(storage.profileCache, calls[c].username)
                /\ storage'.regionCache = storage.regionCache
                /\ last'.ret = Removed(calls[c].purged, TRUE) ]_vars

\* C37: activeQueryCount is the number of jobs dispatched and not settled and
\* is never negative; a step changes it by the number of jobs the step
\* dispatches less the one it settles, and a limit change settles none.
C37_ActiveCountExact ==
  /\ [](activeQueryCount = Cardinality(DOMAIN running) /\ activeQueryCount >= 0)
  /\ [][ /\ activeQueryCount' - activeQueryCount
              = Cardinality(DOMAIN running' \ DOMAIN running)
                  - Cardinality(DOMAIN running \ DOMAIN running')
         /\ Cardinality(DOMAIN running \ DOMAIN running')
              = (IF last'.op = "settled" THEN 1 ELSE 0)
         /\ queueJobMax' # queueJobMax => activeQueryCount' >= activeQueryCount ]_vars

\* two jobs ran side by side, the limit was lowered to 1 and job 2 has just
\* failed: one job is counted
C37_Witness ==
  /\ last.op = "settled"
  /\ last.id = 2
  /\ ~last.ret.success
  /\ queueJobMax = 1
  /\ DOMAIN running = {1}
  /\ activeQueryCount = 1

\* C38: when a job whose task has shouldKeepTab = false settles, with a
\* success or with a failure, the tab it holds is closed and so is a tab it
\* created in the settling step itself; no tab is open that chrome has not
\* created.
C38_NoTabLeak ==
  /\ [](\A t \in tabs : t < nextTabId)
  /\ [][ \A j \in DOMAIN running :
           (last'.op = "settled" /\ last'.id = j /\ ~running[j].task.shouldKeepTab)
           => /\ running[j].tab \notin tabs'
              /\ nextTabId \notin tabs' ]_vars

\* the only job admitted so far created a tab and failed; the tab is closed
C38_Witness ==
  /\ last.op = "settled"
  /\ ~last.ret.success
  /\ nextJobId = 2
  /\ nextTabId = 2
  /\ running = EmptyMap
  /\ tabs = {}

\* C39 (as stated): any two profile lookups the page script has sent are at
\* least RATE_LIMIT_MS apart.
C39_RequestSpacing ==
  \A i, k \in 1..Len(injected.sent) :
    i < k => injected.sent[k] - injected.sent[i] >= RATE_LIMIT_MS

====
